---- MODULE Spec2Model ----
(***************************************************************************)
(* A model of the echo-jnn "Chimera" prototypes: the CogKernel process     *)
(* scheduler, the AtomSpace store with the PLN syscalls, the A000081 tree  *)
(* enumerator, the cognitive-state quantiser and the 12-step cognitive     *)
(* cycle.  Each subsystem has its own specification over its own group of  *)
(* variables; the other groups stay at their initial value.                *)
(***************************************************************************)
EXTENDS Integers, Sequences, FiniteSets, TLC

VARIABLES
    \* ---- CogScheduler / CogKernel (kernel/cogkernel.py) ----
    all_procs,      \* CogScheduler.all_procs : pid -> CogProc record
    ready_queue,    \* CogScheduler.ready_queue : sorted seq of <<eff, pid>>
    running,        \* CogScheduler.running : pid, or NoPid for None
    waiting,        \* CogScheduler.waiting : set of pids (pid -> same CogProc)
    lockOwner,      \* CogScheduler._lock : "free" or "held"
    hung,           \* TRUE once a caller blocks forever acquiring _lock
    next_pid,       \* CogKernel._next_pid
    stats,          \* CogKernel.stats (process counters)
    k_running,      \* CogKernel._running
    execStack,      \* pids whose CogProc.execute is on the call stack
    lastCall,       \* observation: outcome of the last operation
    \* ---- concurrent CogKernel.fork callers ----
    tpc,            \* thread -> position inside fork
    tpid,           \* thread -> pid allocated by _allocate_pid
    tread,          \* thread -> value of stats["processes_created"] read
    allocLog,       \* pids in the order _allocate_pid handed them out
    retLog,         \* pids in the order fork returned them
    \* ---- AtomSpace and PLNSyscall (atomspace/atomspace.py) ----
    objs,           \* every Atom object constructed so far; uuid = index
    by_uuid,        \* AtomSpace._atoms_by_uuid : set of uuids (uuid -> atom)
    by_type,        \* AtomSpace._atoms_by_type : type -> seq of uuids
    by_name,        \* AtomSpace._atoms_by_name : <<type, name>> -> uuid
    inferences,     \* CogKernel.stats["inferences_performed"]
    lastAtom,       \* observation: outcome of the last AtomSpace operation
    \* ---- A000081Generator / TreeEnumerator (bridge) ----
    gen_cache,      \* A000081Generator._cache : n -> a(n)
    enum_cache,     \* TreeEnumerator._cache : order -> seq of RootedTree
    lastEnum,       \* observation: the last generator / enumerator call
    \* ---- CognitiveStateTokenizer (verification/roundtrip_verifier.py) ----
    original,       \* the value handed to _quantize
    quantized,      \* the token _quantize returned
    decoded,        \* the value _dequantize returned
    qpc,            \* "idle", "quantized" or "decoded"
    \* ---- CognitiveCycle (agents/ouroboros.py) ----
    current_step,   \* CognitiveCycle.current_step
    stream_states,  \* CognitiveCycle.stream_states : stream -> phase, data
    trace,           \* observation: argument and result of the last step() calls
    \* ---- PersonalityTensor (agents/ouroboros.py) ----
    attrs,          \* the instance __dict__ : attribute name -> value
    constructed,    \* the ethical constraints as __init__ set them
    lastSet,         \* observation: the last evolve / assignment and what it raised
    \* ---- CogFS (kernel/cogkernel.py) ----
    fs_query,       \* QueryNode._last_query and QueryNode._results of /atomspace/query
    lastFs,          \* observation: the last CogFS call, the node it resolved, its outcome
    \* ---- OpenCogEncoder / OpenCogModel (tfml modeling_opencog.py) ----
    lastForward,     \* observation: the arguments and the outcome of the last forward call
    \* ---- CognitiveStateTokenizer encode / decode (verification/roundtrip_verifier.py) ----
    lastTok,         \* observation: the last encode / decode call and its outcome
    \* ---- OuroborosAgent (agents/ouroboros.py) ----
    step_count,     \* OuroborosAgent.step_count
    episodic_memory, \* OuroborosAgent.episodic_memory : seq of episodes (step, input)
    \* ---- EmotionalState (agents/ouroboros.py) ----
    emotion,        \* an EmotionalState object: its six fields
    lastEmotion     \* observation: the last update() call and the decay() calls since

schedVars == <<all_procs, ready_queue, running, waiting, lockOwner, hung,
               next_pid, stats, k_running, execStack, lastCall>>
forkVars  == <<tpc, tpid, tread, allocLog, retLog>>

atomVars  == <<objs, by_uuid, by_type, by_name, inferences, lastAtom>>

treeVars  == <<gen_cache, enum_cache, lastEnum>>
quantVars == <<original, quantized, decoded, qpc>>
cycleVars == <<current_step, stream_states, trace>>

personaVars == <<attrs, constructed, lastSet>>

fsVars == <<fs_query, lastFs>>

modelVars == <<lastForward>>

tokVars == <<lastTok>>

agentVars == <<step_count, episodic_memory>>

emotionVars == <<emotion, lastEmotion>>

vars == <<schedVars, forkVars, atomVars, treeVars, quantVars, cycleVars,
          personaVars, fsVars, modelVars, tokVars, agentVars, emotionVars>>

\* the variables of the other subsystems
outsideKernel == <<atomVars, treeVars, quantVars, cycleVars,
                  personaVars,
                  fsVars,
                  modelVars,
                  tokVars,
                  agentVars,
                  emotionVars>>
outsideAtom   == <<schedVars, forkVars, treeVars, quantVars, cycleVars,
                  personaVars,
                  fsVars,
                  modelVars,
                  tokVars,
                  agentVars,
                  emotionVars>>
outsideTree   == <<schedVars, forkVars, atomVars, quantVars, cycleVars,
                  personaVars,
                  fsVars,
                  modelVars,
                  tokVars,
                  agentVars,
                  emotionVars>>
outsideQuant  == <<schedVars, forkVars, atomVars, treeVars, cycleVars,
                  personaVars,
                  fsVars,
                  modelVars,
                  tokVars,
                  agentVars,
                  emotionVars>>
outsideCycle  == <<schedVars, forkVars, atomVars, treeVars, quantVars,
                  personaVars,
                  fsVars,
                  modelVars,
                  tokVars,
                  agentVars,
                  emotionVars>>
outsidePersona == <<schedVars, forkVars, atomVars, treeVars, quantVars, cycleVars,
                  fsVars,
                  modelVars,
                  tokVars,
                  agentVars,
                  emotionVars>>
\* CogFS reads and writes the AtomSpace
outsideFs == <<schedVars, forkVars, treeVars, quantVars, cycleVars, personaVars,
                  modelVars,
                  tokVars,
                  agentVars,
                  emotionVars>>
outsideModel == <<schedVars, forkVars, atomVars, treeVars, quantVars, cycleVars, personaVars, fsVars,
                  tokVars,
                  agentVars,
                  emotionVars>>
outsideTok == <<schedVars, forkVars, atomVars, treeVars, quantVars, cycleVars, personaVars, fsVars, modelVars,
                  agentVars,
                  emotionVars>>
\* think() runs the cognitive cycle
outsideAgent == <<schedVars, forkVars, atomVars, treeVars, quantVars, personaVars, fsVars, modelVars, tokVars,
                  emotionVars>>
outsideEmotion == <<schedVars, forkVars, atomVars, treeVars, quantVars, cycleVars, personaVars, fsVars, modelVars, tokVars, agentVars>>

(***************************************************************************)
(* Bounds of the model                                                     *)
(***************************************************************************)
MaxProcs   == 2      \* processes in the scheduler's process table
MaxQueue   == 3      \* entries in the ready queue
MaxKills   == 2      \* calls of CogKernel.kill counted in the statistics
MaxDepth   == 1      \* nested CogProc.execute calls
MaxSTI     == 200    \* largest short-term importance reached by stimulate
NumThreads == 3      \* threads calling CogKernel.fork concurrently
MaxForks   == 3      \* forks made by those threads
MaxDerived == 2      \* links constructed by PLN deduction
MaxTypeLen == 3      \* entries in one list of the by-type index
MaxInfer   == 2      \* inference syscalls counted in the statistics
MaxAtomSTI == 10     \* largest STI an atom reaches by stimulation
MaxOrder   == 8      \* largest order handed to TreeEnumerator.enumerate
Precision  == 8      \* bits in the significand of a float
MinExp     == 2      \* floats tried have magnitude >= 2^-MinExp (or are 0)
MaxTrace   == 12     \* step() calls kept in the trace
MaxGenOrder == 10    \* largest n and max_order handed to A000081Generator
MaxLayers  == 2      \* largest config.num_hidden_layers
MaxCalls   == 1503   \* think() calls made
MaxDataCalls == 3    \* think() calls that may be given input data
MaxDuration == 3     \* largest duration handed to EmotionalState.update
MaxDecays  == 5      \* decay() calls followed after one update()
MaxTreeAtoms == 6    \* atoms RootedTree.to_atomspace may create in all

(***************************************************************************)
(* Generic helpers                                                         *)
(***************************************************************************)
Max(a, b) == IF a >= b THEN a ELSE b
Min(a, b) == IF a <= b THEN a ELSE b

Range(s) == {s[i] : i \in 1..Len(s)}

\* d[k] = v on a dict kept as a function
DictPut(d, k, v) == [x \in (DOMAIN d) \cup {k} |-> IF x = k THEN v ELSE d[x]]
DictDel(d, k)    == [x \in (DOMAIN d) \ {k} |-> d[x]]
DictGet(d, k, default) == IF k \in DOMAIN d THEN d[k] ELSE default

\* sum(f[x] for x in DOMAIN f)
RECURSIVE SumFn(_)
SumFn(f) ==
    IF DOMAIN f = {} THEN 0
    ELSE LET x == CHOOSE y \in DOMAIN f : TRUE
         IN  f[x] + SumFn([y \in DOMAIN f \ {x} |-> f[y]])

\* Python's tuple comparison on (float, int) pairs
TupleLess(a, b) == \/ a[1] < b[1]
                   \/ a[1] = b[1] /\ a[2] < b[2]

(***************************************************************************)
(* CogProcState / CogProcPriority                                          *)
(***************************************************************************)
NASCENT    == "NASCENT"
READY      == "READY"
RUNNING    == "RUNNING"
WAITING    == "WAITING"
TERMINATED == "TERMINATED"

CRITICAL == 0
REALTIME == 1
HIGH     == 2
NORMAL   == 3
LOW      == 4
IDLE     == 5

NoPid == 0      \* None where a pid / process is expected

\* STI is kept in units of 1/STIScale so that decay by one half stays exact
STIScale == 4
ForkSTI  == 50      \* AttentionValue(sti=50, lti=10) given by fork

\* the values a process function can produce
NoResult  == [kind |-> "none"]
ErrorDict == [kind |-> "error", msg |-> "boom"]

Outcomes == {"return", "raise_exception", "raise_base_exception"}

(***************************************************************************)
(* CogProc                                                                 *)
(***************************************************************************)
\* a CogProc as the dataclass builds it (state NASCENT, no result yet)
NewProc(prio, sti, func, args) ==
    [state |-> NASCENT, priority |-> prio, sti |-> sti * STIScale,
     hasFunc |-> func, args |-> args, result |-> NoResult]

\* CogProc.get_effective_priority, scaled by 100 * STIScale:
\*   max(0, base - sti / 100.0)
get_effective_priority(proc) ==
    Max(0, proc.priority * 100 * STIScale - proc.sti)

\* the process function of the tests: task(x) = x * 2
FuncValue(args) == [kind |-> "value", val |-> 2 * args]

(***************************************************************************)
(* queue.PriorityQueue of (priority, pid) tuples                           *)
(***************************************************************************)
\* put: the queue is kept as the sorted sequence of its entries
QPut(q, e) ==
    LET k == Cardinality({i \in 1..Len(q) : ~TupleLess(e, q[i])})
    IN  SubSeq(q, 1, k) \o <<e>> \o SubSeq(q, k + 1, Len(q))

IsSorted(q) == \A i \in 1..(Len(q) - 1) : ~TupleLess(q[i + 1], q[i])

(***************************************************************************)
(* CogScheduler                                                            *)
(***************************************************************************)
\* add_process, the part under self._lock
AddProcessProcs(procs, pid, proc) ==
    [p \in (DOMAIN procs) \cup {pid} |->
        IF p = pid THEN [proc EXCEPT !.state = READY] ELSE procs[p]]

AddProcessQueue(q, pid, proc) ==
    QPut(q, <<get_effective_priority(proc), pid>>)

\* schedule(): entered with the lock in state lock.  "with self._lock"
\* blocks for ever when the lock is already held (threading.Lock is not
\* reentrant); the recursive "try next" call is made inside the with block.
RECURSIVE ScheduleBody(_, _, _)
ScheduleBody(q, procs, lock) ==
    IF lock = "held"
    THEN [hung |-> TRUE, ret |-> NoPid, q |-> q, found |-> FALSE]
    ELSE IF q = <<>>
         THEN [hung |-> FALSE, ret |-> NoPid, q |-> q, found |-> FALSE]
         ELSE LET pid == Head(q)[2]
              IN  IF pid \in DOMAIN procs /\ procs[pid].state = READY
                  THEN [hung |-> FALSE, ret |-> pid, q |-> Tail(q),
                        found |-> TRUE]
                  ELSE ScheduleBody(Tail(q), procs, "held")

\* ---- what a caller may expect from schedule(), taken from the pre-state --
\* pids that have a ready-queue entry and whose process is READY
ReadyQueued(q, procs) ==
    {e[2] : e \in {x \in Range(q) :
                     x[2] \in DOMAIN procs /\ procs[x[2]].state = READY}}

\* the first queue entry whose process is READY (NoPid when there is none)
FirstReady(q, procs) ==
    LET idx == {i \in 1..Len(q) :
                  q[i][2] \in DOMAIN procs /\ procs[q[i][2]].state = READY}
    IN  IF idx = {} THEN NoPid
        ELSE q[CHOOSE i \in idx : \A j \in idx : i <= j][2]

\* the READY queued process with the smallest current effective priority,
\* ties broken by the lower pid
BestNow(q, procs) ==
    LET c == ReadyQueued(q, procs)
        key(p) == <<get_effective_priority(procs[p]), p>>
    IN  IF c = {} THEN NoPid
        ELSE CHOOSE p \in c : \A r \in c : r = p \/ TupleLess(key(p), key(r))

Call(op, pid) == [op |-> op, pid |-> pid]

(***************************************************************************)
(* Initial state                                                           *)
(***************************************************************************)
InitSched ==
    /\ all_procs = <<>>
    /\ ready_queue = <<>>
    /\ running = NoPid
    /\ waiting = {}
    /\ lockOwner = "free"
    /\ hung = FALSE
    /\ next_pid = 1
    /\ stats = [processes_created |-> 0, processes_terminated |-> 0]
    /\ k_running = FALSE
    /\ execStack = <<>>
    /\ lastCall = Call("init", NoPid)

InitFork ==
    /\ tpc = [t \in 1..NumThreads |-> "idle"]
    /\ tpid = [t \in 1..NumThreads |-> NoPid]
    /\ tread = [t \in 1..NumThreads |-> 0]
    /\ allocLog = <<>>
    /\ retLog = <<>>

(***************************************************************************)
(* Truth values: exact fractions <<numerator, denominator>>                *)
(***************************************************************************)
RECURSIVE Gcd(_, _)
Gcd(a, b) == IF b = 0 THEN a ELSE Gcd(b, a % b)

Frac(n, d) == LET g == Gcd(n, d) IN <<n \div g, d \div g>>

FMul(x, y) == Frac(x[1] * y[1], x[2] * y[2])
FAdd(x, y) == Frac(x[1] * y[2] + y[1] * x[2], x[2] * y[2])
FDiv(x, y) == Frac(x[1] * y[2], x[2] * y[1])
FLeq(x, y) == x[1] * y[2] <= y[1] * x[2]
FMin(x, y) == IF FLeq(x, y) THEN x ELSE y

\* the outcome of a call that raised nothing, and the exceptions that occur
NoException == "none"
IndexError  == "IndexError"

One  == <<1, 1>>
Half == <<1, 2>>
Zero == <<0, 1>>

\* TruthValue.simple(strength, confidence)
SimpleTV(st, c) == [strength |-> st, confidence |-> c, tv_type |-> "SIMPLE"]

\* TruthValue.simple() : strength 1.0, confidence 0.9
DefaultTV == SimpleTV(One, <<9, 10>>)

\* TruthValue.indefinite()
IndefiniteTV == [strength |-> Half, confidence |-> Zero,
                 tv_type |-> "INDEFINITE"]

\* TruthValue.merge
MergeTV(self, other) ==
    IF self.tv_type = "INDEFINITE" THEN other
    ELSE IF other.tv_type = "INDEFINITE" THEN self
    ELSE LET total_weight == FAdd(self.confidence, other.confidence)
         IN  IF total_weight = Zero THEN IndefiniteTV
             ELSE SimpleTV(
                    FDiv(FAdd(FMul(self.strength, self.confidence),
                              FMul(other.strength, other.confidence)),
                         total_weight),
                    FMin(One, FDiv(total_weight, <<2, 1>>)))

(***************************************************************************)
(* Atoms                                                                   *)
(***************************************************************************)
NoAtom == 0      \* None where an atom / uuid is expected

\* Node(node_type, node_name, tv)
MkNode(type, name, tv) ==
    [kind |-> "node", atom_type |-> type, name |-> name, outgoing |-> <<>>,
     tv |-> tv, sti |-> 0]

\* Link(link_type, outgoing, tv)
MkLink(type, out, tv) ==
    [kind |-> "link", atom_type |-> type, name |-> "", outgoing |-> out,
     tv |-> tv, sti |-> 0]

\* InheritanceLink(subtype, supertype, tv)
InheritanceLink(a, c, tv) == MkLink("InheritanceLink", <<a, c>>, tv)

\* the atoms the caller has constructed before the first AtomSpace call:
\*   1..3  ConceptNode A, B, C        4  a second ConceptNode("A") object,
\*                                       with TruthValue.indefinite()
\*   5  A -> B    6  B -> C    7  B -> A    8  ListLink(A, B)
\*   9  Link("InheritanceLink", [A]), a link of that type with one member
AtomPool ==
    << MkNode("ConceptNode", "A", DefaultTV),
       MkNode("ConceptNode", "B", DefaultTV),
       MkNode("ConceptNode", "C", DefaultTV),
       MkNode("ConceptNode", "A", IndefiniteTV),
       InheritanceLink(1, 2, SimpleTV(Half, One)),
       InheritanceLink(2, 3, SimpleTV(One, Half)),
       InheritanceLink(2, 1, SimpleTV(Half, Half)),
       MkLink("ListLink", <<1, 2>>, DefaultTV),
       MkLink("InheritanceLink", <<1>>, DefaultTV) >>

InitAtom ==
    /\ objs = AtomPool
    /\ by_uuid = {}
    /\ by_type = <<>>
    /\ by_name = <<>>
    /\ inferences = 0
    /\ lastAtom = [op |-> "init"]

(***************************************************************************)
(* A000081Generator                                                        *)
(***************************************************************************)
GenInitOrder == 6     \* A000081Generator(6)

\* the terms d * a(d) * a(i - k) of the recurrence, for k in 1..i-1 and d | k
RecurrenceTotal(cache, i) ==
    SumFn([p \in {q \in (1..(i - 1)) \X (1..(i - 1)) : q[1] % q[2] = 0} |->
             IF p[2] \in DOMAIN cache /\ (i - p[1]) \in DOMAIN cache
             THEN p[2] * cache[p[2]] * cache[i - p[1]]
             ELSE 0])

\* A000081Generator._precompute(n): for i in range(2, n + 1)
RECURSIVE PrecomputeFrom(_, _, _)
PrecomputeFrom(cache, i, n) ==
    IF i > n THEN cache
    ELSE PrecomputeFrom(
             IF i \in DOMAIN cache THEN cache
             ELSE DictPut(cache, i, RecurrenceTotal(cache, i) \div (i - 1)),
             i + 1, n)

precompute(cache, n) == PrecomputeFrom(cache, 2, n)

\* A000081Generator.__getitem__(n): the cache after the call, and its value
GetItemCache(cache, n) ==
    IF n \in DOMAIN cache THEN cache ELSE precompute(cache, n)
\* a __getitem__ that only looks the value up
GetItemLookup(cache, n) == DictGet(cache, n, 0)

GetItem(cache, n) == DictGet(GetItemCache(cache, n), n, 0)

InitTree ==
    /\ gen_cache = precompute((0 :> 0) @@ (1 :> 1), GenInitOrder)
    /\ enum_cache = <<>>
    /\ lastEnum = [op |-> "init"]

(***************************************************************************)
(* CognitiveStateTokenizer, CognitiveCycle: initial state                  *)
(***************************************************************************)
ORIENT_1 == 1
PERCEIVE == 2
IMAGINE  == 8

NoInput == "None"
NoData  == [phase |-> 0, step |-> 0, perceived |-> NoInput]

InitQuant ==
    /\ original = Zero
    /\ quantized = 0
    /\ decoded = Zero
    /\ qpc = "idle"

InitCycle ==
    /\ current_step = 1
    /\ stream_states = <<[phase |-> ORIENT_1, data |-> NoData],
                          [phase |-> PERCEIVE, data |-> NoData],
                          [phase |-> IMAGINE, data |-> NoData]>>
    /\ trace = <<>>

(***************************************************************************)
(* PersonalityTensor: construction                                         *)
(***************************************************************************)
Ethical == {"no_harm_intent", "respect_boundaries", "constructive_chaos"}
Locked == "_locked"
InstanceDict == "__dict__"

\* the field defaults; the dataclass also keeps them as class attributes.
\* Two of the eight traits are modelled.
FieldDefaults ==
    [curiosity |-> Frac(9, 10), chaotic |-> Half,
     no_harm_intent |-> One, respect_boundaries |-> Frac(19, 20),
     constructive_chaos |-> Frac(9, 10)]

\* PersonalityTensor(no_harm_intent = nh): __init__ assigns the fields while
\* _locked does not exist yet, then __post_init__ sets _locked = True (One)
NewTensor(nh) ==
    DictPut([FieldDefaults EXCEPT !.no_harm_intent = nh], Locked, One)

EthicalValues(d) == [e \in Ethical |-> d[e]]

InitPersona ==
    /\ attrs = NewTensor(One)
    /\ constructed = EthicalValues(attrs)
    /\ lastSet = [op |-> "init", name |-> "", raised |-> NoException]

(***************************************************************************)
(* CogFS: construction                                                     *)
(***************************************************************************)
NoQuery == "None"
NoNode == [kind |-> "None", atom |-> NoAtom]

\* CogFS.__init__ / _init_virtual_nodes: one QueryNode, nothing resolved yet
InitFs ==
    /\ fs_query = [last_query |-> NoQuery, results |-> <<>>]
    /\ lastFs = [op |-> "init", path |-> <<>>, ret |-> [none |-> TRUE],
                 raised |-> NoException]

\* no forward call made yet
InitModel == lastForward = [op |-> "init"]

\* no tokenizer call made yet
InitTok == lastTok = [op |-> "init"]

\* OuroborosAgent.__init__
InitAgent ==
    /\ step_count = 0
    /\ episodic_memory = <<>>

\* EmotionalState(): the dataclass defaults
NewEmotionalState ==
    [valence |-> Zero, arousal |-> Half, dominance |-> Half,
     primary_emotion |-> "neutral", intensity |-> Half, duration |-> 0]

InitEmotion ==
    /\ emotion = NewEmotionalState
    /\ lastEmotion = [op |-> "init", emotion |-> "neutral", duration |-> 0,
                      decays |-> 0]

Init == InitSched /\ InitFork /\ InitAtom /\ InitTree /\ InitQuant /\ InitCycle
        /\ InitPersona /\ InitFs /\ InitModel /\ InitTok /\ InitAgent
        /\ InitEmotion

(***************************************************************************)
(* Sequential operations of the kernel and the scheduler                   *)
(***************************************************************************)
Args       == {21}
DirectPids == {11, 12}
DirectPrio == {CRITICAL, NORMAL}
DirectSTI  == {10, 100}
AllPids    == (1..MaxProcs) \cup DirectPids
StimAmount == {100}

\* the caller is not stuck inside schedule()
Alive == ~hung /\ lockOwner = "free"

\* a _allocate_pid that forgets "self._next_pid += 1"
allocate_pid_stuck(n) == n

\* _allocate_pid: the value left in _next_pid
allocate_pid_next(n) == n + 1

\* CogKernel.fork(name, func, *args)
Fork(args) ==
    /\ Alive
    /\ Cardinality(DOMAIN all_procs) < MaxProcs
    /\ Len(ready_queue) < MaxQueue
    /\ LET pid  == next_pid
           proc == NewProc(NORMAL, ForkSTI, TRUE, args)
       IN  /\ next_pid' = allocate_pid_next(next_pid)
           /\ all_procs' = AddProcessProcs(all_procs, pid, proc)
           /\ ready_queue' = AddProcessQueue(ready_queue, pid, proc)
           /\ stats' = [stats EXCEPT !.processes_created = @ + 1]
           /\ lastCall' = [op |-> "fork", pid |-> pid]
    /\ UNCHANGED <<running, waiting, lockOwner, hung, k_running, execStack>>
    /\ UNCHANGED <<forkVars, outsideKernel>>

\* CogScheduler.add_process(proc) with a CogProc built by the caller
AddProcess(pid, prio, sti, func) ==
    /\ Alive
    /\ pid \notin DOMAIN all_procs
    /\ Cardinality(DOMAIN all_procs) < MaxProcs
    /\ Len(ready_queue) < MaxQueue
    /\ LET proc == NewProc(prio, sti, func, 21)
       IN  /\ all_procs' = AddProcessProcs(all_procs, pid, proc)
           /\ ready_queue' = AddProcessQueue(ready_queue, pid, proc)
    /\ lastCall' = Call("add_process", pid)
    /\ UNCHANGED <<running, waiting, lockOwner, hung, next_pid, stats,
                   k_running, execStack>>
    /\ UNCHANGED <<forkVars, outsideKernel>>

\* CogScheduler.schedule()
Schedule ==
    /\ Alive
    /\ LET r == ScheduleBody(ready_queue, all_procs, lockOwner)
       IN  /\ ready_queue' = r.q
           /\ running' = IF r.found THEN r.ret ELSE running
           /\ hung' = r.hung
           /\ lockOwner' = IF r.hung THEN "held" ELSE "free"
           /\ lastCall' = [op |-> "schedule", pid |-> r.ret,
                           hung |-> r.hung,
                           first |-> FirstReady(ready_queue, all_procs),
                           best |-> BestNow(ready_queue, all_procs),
                           discarded |-> Len(ready_queue) - Len(r.q)
                                         - (IF r.found THEN 1 ELSE 0)]
    /\ UNCHANGED <<all_procs, waiting, next_pid, stats, k_running, execStack>>
    /\ UNCHANGED <<forkVars, outsideKernel>>

\* CogScheduler.preempt(proc)
Preempt(pid) ==
    /\ Alive
    /\ pid \in DOMAIN all_procs
    /\ IF all_procs[pid].state = RUNNING
       THEN /\ Len(ready_queue) < MaxQueue
            /\ all_procs' = [all_procs EXCEPT ![pid].state = READY]
            /\ ready_queue' =
                 QPut(ready_queue,
                      <<get_effective_priority(all_procs[pid]), pid>>)
            /\ running' = NoPid
       ELSE UNCHANGED <<all_procs, ready_queue, running>>
    /\ lastCall' = Call("preempt", pid)
    /\ UNCHANGED <<waiting, lockOwner, hung, next_pid, stats, k_running,
                   execStack>>
    /\ UNCHANGED <<forkVars, outsideKernel>>

\* CogScheduler.block(proc)
Block(pid) ==
    /\ Alive
    /\ pid \in DOMAIN all_procs
    /\ all_procs' = [all_procs EXCEPT ![pid].state = WAITING]
    /\ waiting' = waiting \cup {pid}
    /\ running' = IF running = pid THEN NoPid ELSE running
    /\ lastCall' = Call("block", pid)
    /\ UNCHANGED <<ready_queue, lockOwner, hung, next_pid, stats, k_running,
                   execStack>>
    /\ UNCHANGED <<forkVars, outsideKernel>>

\* CogScheduler.unblock(pid)
Unblock(pid) ==
    /\ Alive
    /\ IF pid \in waiting
       THEN /\ Len(ready_queue) < MaxQueue
            /\ waiting' = waiting \ {pid}
            /\ all_procs' = [all_procs EXCEPT ![pid].state = READY]
            /\ ready_queue' =
                 QPut(ready_queue,
                      <<get_effective_priority(all_procs[pid]), pid>>)
       ELSE UNCHANGED <<waiting, all_procs, ready_queue>>
    /\ lastCall' = Call("unblock", pid)
    /\ UNCHANGED <<running, lockOwner, hung, next_pid, stats, k_running,
                   execStack>>
    /\ UNCHANGED <<forkVars, outsideKernel>>

\* CogScheduler.stimulate(pid, amount): AttentionValue.stimulate
Stimulate(pid, amount) ==
    /\ Alive
    /\ IF pid \in DOMAIN all_procs
       THEN /\ all_procs[pid].sti + amount * STIScale <= MaxSTI * STIScale
            /\ all_procs' = [all_procs EXCEPT
                               ![pid].sti = @ + amount * STIScale]
       ELSE UNCHANGED all_procs
    /\ lastCall' = Call("stimulate", pid)
    /\ UNCHANGED <<ready_queue, running, waiting, lockOwner, hung, next_pid,
                   stats, k_running, execStack>>
    /\ UNCHANGED <<forkVars, outsideKernel>>

\* CogScheduler.decay_all(rate) for rate = 1/den: sti *= (1 - rate)
DecayAll(den) ==
    /\ Alive
    /\ all_procs # <<>>
    /\ \A p \in DOMAIN all_procs : (all_procs[p].sti * (den - 1)) % den = 0
    /\ all_procs' = [p \in DOMAIN all_procs |->
                       [all_procs[p] EXCEPT !.sti = (@ * (den - 1)) \div den]]
    /\ lastCall' = Call("decay_all", NoPid)
    /\ UNCHANGED <<ready_queue, running, waiting, lockOwner, hung, next_pid,
                   stats, k_running, execStack>>
    /\ UNCHANGED <<forkVars, outsideKernel>>

\* CogProc.execute up to the call of self._func (CogKernel.exec calls it)
ExecStart(pid) ==
    /\ Alive
    /\ pid \in DOMAIN all_procs
    /\ IF ~all_procs[pid].hasFunc
       THEN /\ lastCall' = [op |-> "exec", pid |-> pid, ret |-> NoResult,
                            outcome |-> "no_function", propagated |-> FALSE]
            /\ UNCHANGED <<all_procs, execStack>>
       ELSE /\ Len(execStack) < MaxDepth
            /\ all_procs' = [all_procs EXCEPT ![pid].state = RUNNING]
            /\ execStack' = <<pid>> \o execStack
            /\ lastCall' = [op |-> "call", pid |-> pid,
                            args |-> all_procs[pid].args]
    /\ UNCHANGED <<ready_queue, running, waiting, lockOwner, hung, next_pid,
                   stats, k_running>>
    /\ UNCHANGED <<forkVars, outsideKernel>>

\* an execute whose except clause does not store the error dictionary
ExecResultNoCatch(proc, outcome) ==
    IF outcome = "return" THEN FuncValue(proc.args) ELSE proc.result

\* the value execute stores in _result when the function ends with outcome
ExecResult(proc, outcome) ==
    CASE outcome = "return"               -> FuncValue(proc.args)
      [] outcome = "raise_exception"      -> ErrorDict
      [] outcome = "raise_base_exception" -> proc.result

\* "except Exception" catches the exception; anything else leaves execute
ExecPropagates(outcome) == outcome = "raise_base_exception"

\* CogProc.execute from the end of self._func: except / finally / return
ExecFinish(outcome) ==
    /\ Alive
    /\ execStack # <<>>
    /\ LET pid == Head(execStack)
           res == ExecResult(all_procs[pid], outcome)
       IN  /\ all_procs' = [all_procs EXCEPT ![pid].result = res,
                                             ![pid].state = TERMINATED]
           /\ lastCall' = [op |-> "exec", pid |-> pid,
                           ret |-> IF ExecPropagates(outcome)
                                   THEN NoResult ELSE res,
                           outcome |-> outcome,
                           propagated |-> ExecPropagates(outcome)]
    /\ execStack' = Tail(execStack)
    /\ UNCHANGED <<ready_queue, running, waiting, lockOwner, hung, next_pid,
                   stats, k_running>>
    /\ UNCHANGED <<forkVars, outsideKernel>>

\* CogKernel.kill(pid) applied to the process table procs
KillProcs(procs, pid) ==
    IF pid \in DOMAIN procs
    THEN [procs EXCEPT ![pid].state = TERMINATED]
    ELSE procs

\* a shutdown loop that only terminates the READY processes
KillReady(procs) ==
    [p \in DOMAIN procs |->
       IF procs[p].state = READY THEN KillProcs(procs, p)[p] ELSE procs[p]]

\* "for pid in list(all_procs.keys()): self.kill(pid)": the process table
KillAll(procs) == [p \in DOMAIN procs |-> KillProcs(procs, p)[p]]

Kill(pid) ==
    /\ Alive
    /\ stats.processes_terminated < MaxKills
    /\ all_procs' = KillProcs(all_procs, pid)
    /\ stats' = IF pid \in DOMAIN all_procs
                THEN [stats EXCEPT !.processes_terminated = @ + 1]
                ELSE stats
    /\ lastCall' = [op |-> "kill", pid |-> pid,
                    ret |-> pid \in DOMAIN all_procs]
    /\ UNCHANGED <<ready_queue, running, waiting, lockOwner, hung, next_pid,
                   k_running, execStack>>
    /\ UNCHANGED <<forkVars, outsideKernel>>

\* CogKernel.boot()
Boot ==
    /\ Alive
    /\ k_running' = TRUE
    /\ lastCall' = Call("boot", NoPid)
    /\ UNCHANGED <<all_procs, ready_queue, running, waiting, lockOwner, hung,
                   next_pid, stats, execStack>>
    /\ UNCHANGED <<forkVars, outsideKernel>>

\* CogKernel.shutdown(): kill(pid) for every pid of the process table
Shutdown ==
    /\ Alive
    /\ stats.processes_terminated + Cardinality(DOMAIN all_procs) <= MaxKills
    /\ k_running' = FALSE
    /\ all_procs' = KillAll(all_procs)
    /\ stats' = [stats EXCEPT !.processes_terminated =
                                 @ + Cardinality(DOMAIN all_procs)]
    /\ lastCall' = Call("shutdown", NoPid)
    /\ UNCHANGED <<ready_queue, running, waiting, lockOwner, hung, next_pid,
                   execStack>>
    /\ UNCHANGED <<forkVars, outsideKernel>>

NextSched ==
    \/ \E a \in Args : Fork(a)
    \/ \E pid \in DirectPids, prio \in DirectPrio :
          AddProcess(pid, prio, ForkSTI, FALSE)
    \/ Schedule
    \/ \E pid \in AllPids : Preempt(pid)
    \/ \E pid \in AllPids : Block(pid)
    \/ \E pid \in AllPids : Unblock(pid)
    \/ \E pid \in AllPids : ExecStart(pid)
    \/ \E o \in Outcomes : ExecFinish(o)
    \/ \E pid \in AllPids : Kill(pid)

SpecSched == Init /\ [][NextSched]_vars

\* the operations around CogKernel.exec: a process function may itself call
\* the scheduler or the kernel while it runs
NextExec ==
    \/ \E a \in Args : Fork(a)
    \/ AddProcess(11, NORMAL, ForkSTI, FALSE)
    \/ \E pid \in AllPids : ExecStart(pid)
    \/ \E o \in Outcomes : ExecFinish(o)
    \/ \E pid \in AllPids : Preempt(pid)
    \/ \E pid \in AllPids : Kill(pid)

SpecExec == Init /\ [][NextExec]_vars

(***************************************************************************)
(* CogKernel.fork called from several threads                              *)
(***************************************************************************)
\* pid = self._allocate_pid()   (with self._pid_lock)
TAlloc(t) ==
    /\ tpc[t] = "idle"
    /\ next_pid <= MaxForks
    /\ tpid' = [tpid EXCEPT ![t] = next_pid]
    /\ next_pid' = allocate_pid_next(next_pid)
    /\ allocLog' = Append(allocLog, next_pid)
    /\ tpc' = [tpc EXCEPT ![t] = "add"]
    /\ UNCHANGED <<all_procs, ready_queue, running, waiting, lockOwner, hung,
                   stats, k_running, execStack, lastCall, tread, retLog,
                   outsideKernel>>

\* self.scheduler.add_process(proc)   (with self._lock)
TAdd(t, args) ==
    /\ tpc[t] = "add"
    /\ lockOwner = "free"
    /\ LET proc == NewProc(NORMAL, ForkSTI, TRUE, args)
       IN  /\ all_procs' = AddProcessProcs(all_procs, tpid[t], proc)
           /\ ready_queue' = AddProcessQueue(ready_queue, tpid[t], proc)
    /\ tpc' = [tpc EXCEPT ![t] = "read"]
    /\ UNCHANGED <<running, waiting, lockOwner, hung, next_pid, stats,
                   k_running, execStack, lastCall, tpid, tread, allocLog,
                   retLog, outsideKernel>>

\* self.stats["processes_created"] += 1 : the load ...
TRead(t) ==
    /\ tpc[t] = "read"
    /\ tread' = [tread EXCEPT ![t] = stats.processes_created]
    /\ tpc' = [tpc EXCEPT ![t] = "write"]
    /\ UNCHANGED <<schedVars, tpid, allocLog, retLog, outsideKernel>>

\* ... and the store
TWrite(t) ==
    /\ tpc[t] = "write"
    /\ stats' = [stats EXCEPT !.processes_created = tread[t] + 1]
    /\ tpc' = [tpc EXCEPT ![t] = "return"]
    /\ UNCHANGED <<all_procs, ready_queue, running, waiting, lockOwner, hung,
                   next_pid, k_running, execStack, lastCall, tpid, tread,
                   allocLog, retLog, outsideKernel>>

\* return proc
TReturn(t) ==
    /\ tpc[t] = "return"
    /\ retLog' = Append(retLog, tpid[t])
    /\ lastCall' = [op |-> "fork", pid |-> tpid[t]]
    /\ tpc' = [tpc EXCEPT ![t] = "idle"]
    /\ UNCHANGED <<all_procs, ready_queue, running, waiting, lockOwner, hung,
                   next_pid, stats, k_running, execStack, tpid, tread,
                   allocLog, outsideKernel>>

NextFork ==
    \/ \E t \in 1..NumThreads : TAlloc(t)
    \/ \E t \in 1..NumThreads, a \in Args : TAdd(t, a)
    \/ \E t \in 1..NumThreads : TRead(t)
    \/ \E t \in 1..NumThreads : TWrite(t)
    \/ \E t \in 1..NumThreads : TReturn(t)

SpecFork == Init /\ [][NextFork]_vars

(***************************************************************************)
(* Attention-based scheduling: the operations that change attention        *)
(***************************************************************************)
NextAttn ==
    \/ \E a \in Args : Fork(a)
    \/ \E pid \in DirectPids, prio \in DirectPrio, sti \in DirectSTI :
          AddProcess(pid, prio, sti, FALSE)
    \/ Schedule
    \/ \E pid \in AllPids, a \in StimAmount : Stimulate(pid, a)
    \/ \E den \in {1, 2} : DecayAll(den)

SpecAttn == Init /\ [][NextAttn]_vars

(***************************************************************************)
(* Claims about the scheduler                                              *)
(***************************************************************************)

\* C1: schedule() always returns: it discards the queue entries whose
\* process is missing or not READY and returns the next READY process, or
\* None when the queue holds no READY process; it never blocks for ever on
\* the scheduler's own lock.
C1_ScheduleAlwaysReturns ==
    lastCall.op = "schedule" =>
        /\ ~lastCall.hung
        /\ ~hung
        /\ lastCall.pid = lastCall.first

\* C2: when several READY processes are queued, schedule() returns the one
\* whose effective priority max(0, base - STI/100), taken with the STI the
\* process has when schedule() is called, is smallest (ties: lower pid).
C2_HighAttentionFirst ==
    (lastCall.op = "schedule" /\ ~lastCall.hung) =>
        lastCall.pid = lastCall.best

\* C5: fork never returns a pid twice: the k-th pid handed out is k (the
\* first is 1, each later one the previous plus one), also when forks of
\* several threads interleave; on return the process is READY and is in the
\* process table under its pid.
C5_ForkPidsFresh ==
    /\ \A i \in 1..Len(allocLog) : allocLog[i] = i
    /\ \A i, j \in 1..Len(retLog) : i # j => retLog[i] # retLog[j]
    /\ \A i \in 1..Len(retLog) : retLog[i] \in 1..Len(allocLog)
    /\ \A t \in 1..NumThreads :
          tpc[t] \in {"read", "write", "return"} =>
             /\ tpid[t] \in DOMAIN all_procs
             /\ all_procs[tpid[t]].state = READY
    /\ lastCall.op = "fork" =>
          /\ lastCall.pid \in DOMAIN all_procs
          /\ all_procs[lastCall.pid].state = READY

\* interleaved forks have returned, the later allocated pid first
C5_Witness ==
    /\ Len(retLog) >= 3
    /\ retLog[1] > retLog[2]
    /\ lastCall.op = "fork"

\* C6 as claimed: exec on a process with a function returns the function's
\* result and leaves the process TERMINATED; if the function raises, nothing
\* propagates, and the returned and stored result is {'error': message}.
C6_ExecNeverPropagates ==
    (lastCall.op = "exec" /\ lastCall.outcome # "no_function") =>
        LET proc == all_procs[lastCall.pid]
        IN  /\ proc.state = TERMINATED
            /\ ~lastCall.propagated
            /\ lastCall.ret = proc.result
            /\ lastCall.outcome = "return" =>
                  lastCall.ret = FuncValue(proc.args)
            /\ lastCall.outcome # "return" => lastCall.ret = ErrorDict

\* C6 amended: as claimed when the function returns or raises an exception
\* derived from Exception; any other BaseException leaves execute, and the
\* process is TERMINATED all the same.
C6_ExecCatchesException ==
    (lastCall.op = "exec" /\ lastCall.outcome # "no_function") =>
        LET proc == all_procs[lastCall.pid]
        IN  /\ proc.state = TERMINATED
            /\ lastCall.outcome = "return" =>
                  /\ ~lastCall.propagated
                  /\ lastCall.ret = FuncValue(proc.args)
                  /\ proc.result = lastCall.ret
            /\ lastCall.outcome = "raise_exception" =>
                  /\ ~lastCall.propagated
                  /\ lastCall.ret = ErrorDict
                  /\ proc.result = ErrorDict
            /\ lastCall.outcome = "raise_base_exception" =>
                  lastCall.propagated

\* a process function has raised an Exception inside exec
C6_Witness ==
    /\ lastCall.op = "exec"
    /\ lastCall.outcome = "raise_exception"
    /\ all_procs[lastCall.pid].result = ErrorDict
    /\ all_procs[lastCall.pid].state = TERMINATED

(***************************************************************************)
(* AtomSpace                                                               *)
(***************************************************************************)
IsNode(u) == objs[u].kind = "node"
KeyOf(u)  == <<objs[u].atom_type, objs[u].name>>

\* list.remove(x): drops the first occurrence of x
RECURSIVE ListRemove(_, _)
ListRemove(l, x) ==
    IF l = <<>> THEN <<>>
    ELSE IF Head(l) = x THEN Tail(l)
    ELSE <<Head(l)>> \o ListRemove(Tail(l), x)

\* the by-type index after "append(atom)" to the list of the atom's type
TypeAppend(bt, type, u) == DictPut(bt, type, Append(DictGet(bt, type, <<>>), u))

\* an add that stores every atom it is given
AddAtomInsert(st, u) ==
    LET o   == st.objs[u]
        key == <<o.atom_type, o.name>>
    IN  [st EXCEPT
           !.by_name = IF o.kind = "node" THEN DictPut(st.by_name, key, u) ELSE @,
           !.by_uuid = @ \cup {u},
           !.by_type = TypeAppend(@, o.atom_type, u),
           !.ret = u]

\* AtomSpace.add(atom) on the store st = [objs, by_uuid, by_type, by_name];
\* gives the new store and the returned atom
AddAtom(st, u) ==
    LET o   == st.objs[u]
        key == <<o.atom_type, o.name>>
    IN  IF o.kind = "node" /\ key \in DOMAIN st.by_name
        THEN LET existing == st.by_name[key]
             IN  [st EXCEPT !.objs[existing].tv =
                               MergeTV(st.objs[existing].tv, o.tv),
                            !.ret = existing]
        ELSE [st EXCEPT
                !.by_name = IF o.kind = "node"
                            THEN DictPut(st.by_name, key, u) ELSE @,
                !.by_uuid = @ \cup {u},
                !.by_type = TypeAppend(@, o.atom_type, u),
                !.ret = u]

Store == [objs |-> objs, by_uuid |-> by_uuid, by_type |-> by_type,
          by_name |-> by_name, ret |-> NoAtom, exc |-> NoException]

\* AtomSpace.get(uuid)
Get(uuid) == IF uuid \in by_uuid THEN uuid ELSE NoAtom

\* AtomSpace.get_node(node_type, name)
get_node(key) == DictGet(by_name, key, NoAtom)

\* AtomSpace.size()
Size == Cardinality(by_uuid)

\* AtomSpace.get_atoms_by_type(atom_type)
get_atoms_by_type(type) == DictGet(by_type, type, <<>>)

AtomTypes == {"ConceptNode", "InheritanceLink", "ListLink"}

Add(u) ==
    /\ u \in 1..Len(objs)
    /\ Len(get_atoms_by_type(objs[u].atom_type)) < MaxTypeLen
    /\ LET st == AddAtom(Store, u)
       IN  /\ objs' = st.objs
           /\ by_uuid' = st.by_uuid
           /\ by_type' = st.by_type
           /\ by_name' = st.by_name
           /\ lastAtom' = [op |-> "add", atom |-> u, ret |-> st.ret]
    /\ UNCHANGED <<inferences, outsideAtom>>

\* AtomSpace.remove(atom)
Remove(u) ==
    /\ u \in 1..Len(objs)
    /\ IF u \notin by_uuid
       THEN /\ lastAtom' = [op |-> "remove", atom |-> u, ret |-> FALSE]
            /\ UNCHANGED <<by_uuid, by_type, by_name>>
       ELSE /\ by_uuid' = by_uuid \ {u}
            /\ by_type' =
                 IF objs[u].atom_type \in DOMAIN by_type
                 THEN [by_type EXCEPT
                         ![objs[u].atom_type] = ListRemove(@, u)]
                 ELSE by_type
            /\ by_name' =
                 IF IsNode(u) /\ KeyOf(u) \in DOMAIN by_name
                 THEN DictDel(by_name, KeyOf(u))
                 ELSE by_name
            /\ lastAtom' = [op |-> "remove", atom |-> u, ret |-> TRUE]
    /\ UNCHANGED <<objs, inferences, outsideAtom>>

\* AtomSpace.clear()
Clear ==
    /\ by_uuid' = {}
    /\ by_type' = <<>>
    /\ by_name' = <<>>
    /\ lastAtom' = [op |-> "clear"]
    /\ UNCHANGED <<objs, inferences, outsideAtom>>

\* the atoms handed to add and remove: two nodes, the second "A" object, a
\* link of each type
AtomInputs == {1, 2, 4, 5, 6, 8}

NextAtom ==
    \/ \E u \in AtomInputs : Add(u)
    \/ \E u \in AtomInputs : Remove(u)
    \/ Clear

SpecAtom == Init /\ [][NextAtom]_vars

\* C3: the three indexes stay parallel: the by-type index lists exactly
\* the atoms of the by-UUID index, each exactly once and under its own type,
\* the by-(type, name) index maps exactly the Nodes of the by-UUID index,
\* and size() is the number of atoms get_atoms_by_type returns over all types.
Occurrences(l, x) == Cardinality({i \in 1..Len(l) : l[i] = x})
SumLen(types) ==
    LET RECURSIVE Sum(_)
        Sum(S) == IF S = {} THEN 0
                  ELSE LET t == CHOOSE x \in S : TRUE
                       IN  Len(get_atoms_by_type(t)) + Sum(S \ {t})
    IN  Sum(types)

C3_IndexesParallel ==
    /\ \A t \in AtomTypes : \A u \in 1..Len(objs) :
          Occurrences(get_atoms_by_type(t), u) =
             IF u \in by_uuid /\ objs[u].atom_type = t THEN 1 ELSE 0
    /\ \A u \in by_uuid :
          IsNode(u) => KeyOf(u) \in DOMAIN by_name /\ by_name[KeyOf(u)] = u
    /\ \A k \in DOMAIN by_name : by_name[k] \in by_uuid /\ KeyOf(by_name[k]) = k
    /\ Size = SumLen(AtomTypes)

(***************************************************************************)
(* PLNSyscall                                                              *)
(***************************************************************************)
\* raise exc out of the call: nothing is returned
Raise(st, exc) == [st EXCEPT !.exc = exc]

IsInheritance(o, u) ==
    o[u].kind = "link" /\ o[u].atom_type = "InheritanceLink"

\* a deduction that takes the strength of the first premise for the
\* confidence
DeductionTVFirst(tvAB, tvBC) ==
    SimpleTV(FMul(tvAB.strength, tvBC.strength),
             FMul(FMul(tvAB.confidence, tvBC.confidence), tvAB.strength))

\* sAC = sAB * sBC, cAC = cAB * cBC * sBC
DeductionTV(tvAB, tvBC) ==
    SimpleTV(FMul(tvAB.strength, tvBC.strength),
             FMul(FMul(tvAB.confidence, tvBC.confidence), tvBC.strength))

\* link1.outgoing[1] == link2.outgoing[0]
ChainsInOrder(o, l1, l2) == o[l1].outgoing[2] = o[l2].outgoing[1]

\* PLNSyscall._deduction(premises) on the store st; outgoing[i] of a list
\* with fewer than i + 1 members raises IndexError
Deduction(st, premises) ==
    IF Len(premises) # 2 THEN st
    ELSE IF ~(\A i \in 1..2 : IsInheritance(st.objs, premises[i])) THEN st
    ELSE LET p1 == premises[1]
             p2 == premises[2]
             n1 == Len(st.objs[p1].outgoing)
             n2 == Len(st.objs[p2].outgoing)
         IN  IF n1 < 2 \/ n2 < 1 THEN Raise(st, IndexError)
             ELSE LET ok == ChainsInOrder(st.objs, p1, p2)
                  IN  IF ~ok /\ n2 < 2 THEN Raise(st, IndexError)
                      ELSE LET sw == ~ok /\ ChainsInOrder(st.objs, p2, p1)
                               link1 == IF sw THEN p2 ELSE p1
                               link2 == IF sw THEN p1 ELSE p2
                           IN  IF ~ok /\ ~sw THEN st
                               ELSE IF Len(st.objs[link2].outgoing) < 2
                               THEN Raise(st, IndexError)
                               ELSE LET A == st.objs[link1].outgoing[1]
                                        C == st.objs[link2].outgoing[2]
                                        conclusion ==
                                            InheritanceLink(A, C,
                                                DeductionTV(st.objs[link1].tv,
                                                            st.objs[link2].tv))
                                        uuid == Len(st.objs) + 1
                                    IN  AddAtom([st EXCEPT
                                                   !.objs = Append(@, conclusion)],
                                                uuid)

\* PLNSyscall._modus_ponens(premises) on the store st
ModusPonens(st, premises) ==
    IF Len(premises) # 2 THEN st
    ELSE LET impls == {i \in 1..2 : IsInheritance(st.objs, premises[i])}
             antes == {i \in 1..2 : ~IsInheritance(st.objs, premises[i])
                                    /\ st.objs[premises[i]].kind = "node"}
             last(S) == CHOOSE i \in S : \A j \in S : j <= i
         IN  IF impls = {} \/ antes = {} THEN st
             ELSE LET impl == premises[last(impls)]
                      ante == premises[last(antes)]
                  IN  IF Len(st.objs[impl].outgoing) < 1
                      THEN Raise(st, IndexError)
                      ELSE IF st.objs[impl].outgoing[1] # ante THEN st
                      ELSE IF Len(st.objs[impl].outgoing) < 2
                      THEN Raise(st, IndexError)
                      ELSE LET consequent == st.objs[impl].outgoing[2]
                           IN  [st EXCEPT !.objs[consequent].sti = @ + 10,
                                          !.ret = consequent]

Rules == {"deduction", "induction", "abduction", "modus_ponens"}

\* PLNSyscall.sys_infer(rule, premises) on the store st
SysInfer(st, rule, premises) ==
    IF \E i \in 1..Len(premises) : premises[i] \notin st.by_uuid THEN st
    ELSE CASE rule = "deduction"    -> Deduction(st, premises)
           [] rule = "induction"    -> st
           [] rule = "abduction"    -> st
           [] rule = "modus_ponens" -> ModusPonens(st, premises)
           [] OTHER                 -> st

\* the calls tried: deduction over every pair of links, and over lists with
\* a node, a ListLink, a uuid no atom has (0), one premise or three; the
\* other rules over a few lists
LinkIds == {u \in 5..Len(objs) : IsInheritance(objs, u)}

DeductionLists ==
    {<<a, b>> : a \in LinkIds, b \in LinkIds}
    \cup {<<0, 5>>, <<5, 0>>, <<1, 5>>, <<5, 1>>, <<8, 5>>, <<5, 8>>,
          <<5>>, <<5, 6, 6>>}


InferInputs ==
    {<<"deduction", l>> : l \in DeductionLists}
    \cup {<<"modus_ponens", l>> :
             l \in {<<1, 5>>, <<5, 1>>, <<2, 5>>, <<5, 6>>, <<0, 5>>,
                    <<1, 9>>}}
    \cup {<<r, l>> : r \in {"induction", "abduction", "revision"},
                    l \in {<<5, 6>>, <<0, 5>>, <<5>>}}

RuleNames == Rules \cup {"revision"}

\* CogKernel.syscall("infer", rule, premises); the statistics count the
\* calls that return
Infer(rule, premises) ==
    /\ inferences < MaxInfer
    /\ LET st == SysInfer(Store, rule, premises)
       IN  /\ Len(st.objs) <= Len(AtomPool) + MaxDerived
           /\ \A t \in DOMAIN st.by_type : Len(st.by_type[t]) <= MaxTypeLen
           /\ \A u \in 1..Len(st.objs) : st.objs[u].sti <= MaxAtomSTI
           /\ objs' = st.objs
           /\ by_uuid' = st.by_uuid
           /\ by_type' = st.by_type
           /\ by_name' = st.by_name
           /\ lastAtom' = [op |-> "infer", rule |-> rule,
                           premises |-> premises, ret |-> st.ret,
                           raised |-> st.exc]
           /\ inferences' = IF st.exc = NoException
                            THEN inferences + 1 ELSE inferences
    /\ UNCHANGED outsideAtom

\* the caller adds the atoms it has constructed, in construction order
AddInOrder(u) ==
    /\ \A v \in by_uuid : v < u
    /\ Add(u)

NextPLN ==
    \/ \E u \in 1..Len(AtomPool) : AddInOrder(u)
    \/ \E call \in InferInputs : Infer(call[1], call[2])

SpecPLN == Init /\ [][NextPLN]_vars

\* ---- the claims' own reading of "two InheritanceLinks that chain" ----
InhLink(u) ==
    u \in 1..Len(objs) /\ objs[u].kind = "link"
    /\ objs[u].atom_type = "InheritanceLink" /\ Len(objs[u].outgoing) = 2

\* ab is X -> Y and bc is Y -> Z
ChainPair(ab, bc) ==
    InhLink(ab) /\ InhLink(bc) /\ objs[ab].outgoing[2] = objs[bc].outgoing[1]

ChainingPremises(premises) ==
    /\ Len(premises) = 2
    /\ premises[1] \in by_uuid /\ premises[2] \in by_uuid
    /\ ChainPair(premises[1], premises[2]) \/ ChainPair(premises[2], premises[1])

InferStep ==
    /\ lastAtom'.op = "infer"
    /\ inferences' = inferences + 1 \/ lastAtom'.raised # NoException

\* C7: syscall('infer', 'deduction', [u1, u2]) with u1, u2 stored
\* InheritanceLinks that chain as A->B, B->C (in either order) adds exactly
\* one new InheritanceLink A->C with strength sAB*sBC and confidence
\* cAB*cBC*sBC and returns its UUID, which get() resolves to it.
C7_Deduction ==
    [][ (InferStep /\ lastAtom'.rule = "deduction"
         /\ ChainingPremises(lastAtom'.premises)) =>
        LET r  == lastAtom'.ret
            p1 == lastAtom'.premises[1]
            p2 == lastAtom'.premises[2]
        IN  /\ lastAtom'.raised = NoException
            /\ r = Len(objs) + 1
            /\ Len(objs') = Len(objs) + 1
            /\ by_uuid' = by_uuid \cup {r}
            /\ \A u \in 1..Len(objs) : objs'[u] = objs[u]
            /\ objs'[r].kind = "link"
            /\ objs'[r].atom_type = "InheritanceLink"
            /\ \E pr \in {<<p1, p2>>, <<p2, p1>>} :
                  /\ ChainPair(pr[1], pr[2])
                  /\ objs'[r].outgoing = <<objs[pr[1]].outgoing[1],
                                           objs[pr[2]].outgoing[2]>>
                  /\ objs'[r].tv.strength =
                        FMul(objs[pr[1]].tv.strength, objs[pr[2]].tv.strength)
                  /\ objs'[r].tv.confidence =
                        FMul(FMul(objs[pr[1]].tv.confidence,
                                  objs[pr[2]].tv.confidence),
                             objs[pr[2]].tv.strength)
      ]_vars

\* a deduction from premises given as B->C, A->B has stored its conclusion
C7_Witness ==
    /\ lastAtom.op = "infer"
    /\ lastAtom.rule = "deduction"
    /\ lastAtom.ret # NoAtom
    /\ lastAtom.ret \in by_uuid
    /\ ~ChainPair(lastAtom.premises[1], lastAtom.premises[2])
    /\ ChainPair(lastAtom.premises[2], lastAtom.premises[1])
    /\ objs[lastAtom.ret].outgoing = <<1, 3>>
    /\ objs[lastAtom.ret].tv = SimpleTV(Half, Half)

\* C8: sys_infer returns None and leaves the AtomSpace unchanged when a
\* premise UUID is not stored, the rule is unknown, the rule is 'induction'
\* or 'abduction', or the rule is 'deduction' and the premises are not
\* exactly two InheritanceLinks that chain.
C8_NoInference ==
    [][ (InferStep /\
         \/ \E i \in 1..Len(lastAtom'.premises) :
               lastAtom'.premises[i] \notin by_uuid
         \/ lastAtom'.rule \notin Rules
         \/ lastAtom'.rule \in {"induction", "abduction"}
         \/ lastAtom'.rule = "deduction"
            /\ ~ChainingPremises(lastAtom'.premises)) =>
        /\ lastAtom'.raised = NoException
        /\ lastAtom'.ret = NoAtom
        /\ UNCHANGED <<objs, by_uuid, by_type, by_name>>
      ]_vars

(***************************************************************************)
(* RootedTree and TreeEnumerator                                           *)
(***************************************************************************)
\* RootedTree(children): the dataclass defaults order = 1, symmetry_factor = 1
RootedTree(children, label) ==
    [children |-> children, label |-> label, order |-> 1,
     symmetry_factor |-> 1]

\* RootedTree.compute_order
RECURSIVE compute_order(_)
compute_order(t) ==
    1 + SumFn([i \in 1..Len(t.children) |-> compute_order(t.children[i])])

\* Python's order on the strings of "(" (0) and ")" (1)
RECURSIVE StrLess(_, _)
StrLess(a, b) ==
    IF b = <<>> THEN FALSE
    ELSE IF a = <<>> THEN TRUE
    ELSE IF a[1] # b[1] THEN a[1] < b[1]
    ELSE StrLess(Tail(a), Tail(b))

\* sorted(strings)
RECURSIVE SortedInsert(_, _)
SortedInsert(l, x) ==
    IF l = <<>> THEN <<x>>
    ELSE IF StrLess(x, Head(l)) THEN <<x>> \o l
    ELSE <<Head(l)>> \o SortedInsert(Tail(l), x)

RECURSIVE Sorted(_)
Sorted(l) == IF l = <<>> THEN <<>> ELSE SortedInsert(Sorted(Tail(l)), Head(l))

\* "".join(strings)
RECURSIVE Join(_)
Join(l) == IF l = <<>> THEN <<>> ELSE Head(l) \o Join(Tail(l))

\* RootedTree.canonical_form
RECURSIVE canonical_form(_)
canonical_form(t) ==
    IF t.children = <<>> THEN <<0, 1>>
    ELSE <<0>> \o Join(Sorted([i \in 1..Len(t.children) |->
                                  canonical_form(t.children[i])])) \o <<1>>

RECURSIVE Factorial(_)
Factorial(n) == IF n <= 1 THEN 1 ELSE n * Factorial(n - 1)

RECURSIVE Product(_)
Product(l) == IF l = <<>> THEN 1 ELSE Head(l) * Product(Tail(l))

\* RootedTree.compute_symmetry, on a tree whose order is computed
RECURSIVE compute_symmetry(_)
compute_symmetry(t) ==
    IF t.children = <<>> THEN 1
    ELSE LET n     == Len(t.children)
             forms == [i \in 1..n |-> canonical_form(t.children[i])]
             keys  == Range(forms)
             child_counts ==
                 [k \in keys |-> Cardinality({i \in 1..n : forms[i] = k})]
             first == {i \in 1..n : \A j \in 1..(i - 1) : forms[j] # forms[i]}
         IN  t.order
             * Product([i \in 1..n |-> compute_symmetry(t.children[i])])
             * Product([i \in 1..n |->
                          IF i \in first
                          THEN Factorial(child_counts[forms[i]]) ELSE 1])

\* TreeEnumerator._partition_helper(n, max_val, ...): the partitions of n
\* into parts <= max_val, largest first part first
RECURSIVE partition_helper(_, _)
partition_helper(n, max_val) ==
    IF n = 0 THEN << <<>> >>
    ELSE LET RECURSIVE From(_)
             From(i) ==
                 IF i <= 0 THEN <<>>
                 ELSE LET rest == partition_helper(n - i, i)
                      IN  [j \in 1..Len(rest) |-> <<i>> \o rest[j]]
                          \o From(i - 1)
         IN  From(Min(n, max_val))

\* TreeEnumerator._partitions(n)
partitions(n) == IF n = 0 THEN << <<>> >> ELSE partition_helper(n, n)

\* TreeEnumerator._children_helper(partition, index, ...): every list that
\* takes one tree of enumerate(partition[i]) for each i >= index
RECURSIVE children_helper(_, _, _)
children_helper(cache, partition, index) ==
    IF index > Len(partition) THEN << <<>> >>
    ELSE LET trees == cache[partition[index]]
             rest  == children_helper(cache, partition, index + 1)
         IN  [k \in 1..(Len(trees) * Len(rest)) |->
                <<trees[((k - 1) \div Len(rest)) + 1]>>
                \o rest[((k - 1) % Len(rest)) + 1]]

\* TreeEnumerator._generate_children(partition)
generate_children(cache, partition) ==
    IF partition = <<>> THEN << <<>> >>
    ELSE children_helper(cache, partition, 1)

\* the tree built in the loop body of enumerate: label tau_<order>_<index>
BuildTree(children, order, index) ==
    LET t0 == RootedTree(children, <<>>)
        t1 == [t0 EXCEPT !.order = compute_order(t0)]
        t2 == [t1 EXCEPT !.symmetry_factor = compute_symmetry(t1)]
    IN  [t2 EXCEPT !.label = <<order, index>>]

\* the list enumerate(order) builds for order >= 2, the lists of the smaller
\* orders being in the cache
TreesOfOrder(cache, order) ==
    LET ps == partitions(order - 1)
        RECURSIVE Build(_, _)
        Build(i, trees) ==
            IF i > Len(ps) THEN trees
            ELSE LET combos == generate_children(cache, ps[i])
                 IN  Build(i + 1,
                           trees \o [j \in 1..Len(combos) |->
                                       BuildTree(combos[j], order,
                                                 Len(trees) + j)])
    IN  Build(1, <<>>)

\* TreeEnumerator.enumerate(order), order >= 1: the cache after the call.
\* The first partition of order - 1 is [order - 1], so the call enumerates
\* order - 1 (and below) before it reads any other list.
RECURSIVE EnumerateCache(_, _)
EnumerateCache(cache, order) ==
    IF order \in DOMAIN cache THEN cache
    ELSE IF order = 1
    THEN DictPut(cache, 1, << RootedTree(<<>>, <<1, 1>>) >>)
    ELSE LET c1 == EnumerateCache(cache, order - 1)
         IN  DictPut(c1, order, TreesOfOrder(c1, order))

\* generator[n]
GenGetItem(n) ==
    /\ gen_cache' = GetItemCache(gen_cache, n)
    /\ lastEnum' = [op |-> "getitem", order |-> n,
                    cached |-> n \in DOMAIN gen_cache,
                    ret |-> GetItem(gen_cache, n)]
    /\ UNCHANGED <<enum_cache, outsideTree>>

\* enumerator.enumerate(order); the list returned is enum_cache[order]
Enumerate(order) ==
    /\ enum_cache' = EnumerateCache(enum_cache, order)
    /\ lastEnum' = [op |-> "enumerate", order |-> order,
                    ret |-> Len(enum_cache'[order])]
    /\ UNCHANGED <<gen_cache, outsideTree>>

NextTree ==
    \/ \E n \in (-1)..(MaxOrder + 1) : GenGetItem(n)
    \/ \E order \in 1..MaxOrder : Enumerate(order)

SpecTree == Init /\ [][NextTree]_vars

\* the number of nodes of a tree
RECURSIVE NodeCount(_)
NodeCount(t) ==
    1 + SumFn([i \in 1..Len(t.children) |-> NodeCount(t.children[i])])

\* C4: enumerate(n) returns exactly A000081Generator[n] trees, each with n
\* nodes, no two with the same canonical form.
C4_EnumerationMatchesA000081 ==
    lastEnum.op = "enumerate" =>
        LET n     == lastEnum.order
            trees == enum_cache[n]
            forms == {canonical_form(trees[i]) : i \in 1..Len(trees)}
        IN  /\ Len(trees) = GetItem(gen_cache, n)
            /\ \A i \in 1..Len(trees) : NodeCount(trees[i]) = n
            /\ Cardinality(forms) = Len(trees)

(***************************************************************************)
(* CognitiveStateTokenizer._quantize / _dequantize                         *)
(*                                                                         *)
(* A float is a rational m * 2^e with a significand m of at most Precision *)
(* bits; every arithmetic operation rounds its exact result to the nearest *)
(* float, ties to the even significand (IEEE 754 round-to-nearest-even).   *)
(* Python's float has 53 bits; the width is a bound of the model.          *)
(***************************************************************************)
QUANTIZATION_LEVELS == 256
VALUE_RANGE == <<Frac(-1, 1), One>>

FNeg(x) == <<-x[1], x[2]>>
FSub(x, y) == FAdd(x, FNeg(y))
FAbs(x) == IF x[1] < 0 THEN FNeg(x) ELSE x
FLess(x, y) == x[1] * y[2] < y[1] * x[2]
FInt(n) == <<n, 1>>

RECURSIVE Pow2(_)
Pow2(k) == IF k = 0 THEN 1 ELSE 2 * Pow2(k - 1)

\* the least u >= from with a * 2^u >= 2^(Precision - 1) * d
RECURSIVE ShiftUp(_, _, _)
ShiftUp(a, d, from) ==
    IF a * Pow2(from) >= Pow2(Precision - 1) * d THEN from
    ELSE ShiftUp(a, d, from + 1)

\* the float nearest to the rational x, for |x| < 2^Precision
RoundFloat(x) ==
    IF x[1] = 0 THEN Zero
    ELSE LET a   == IF x[1] < 0 THEN -x[1] ELSE x[1]
             d   == x[2]
             u   == ShiftUp(a, d, 0)
             m   == (a * Pow2(u)) \div d
             rem == (a * Pow2(u)) % d
             up  == 2 * rem > d \/ (2 * rem = d /\ m % 2 = 1)
             mm  == IF up THEN m + 1 ELSE m
         IN  Frac(IF x[1] < 0 THEN -mm ELSE mm, Pow2(u))

\* float +, -, *, /
FlAdd(x, y) == RoundFloat(FAdd(x, y))
FlSub(x, y) == RoundFloat(FSub(x, y))
FlMul(x, y) == RoundFloat(FMul(x, y))
FlDiv(x, y) == RoundFloat(FDiv(x, y))

\* int(x): truncation towards zero
IntOf(x) == IF x[1] >= 0 THEN x[1] \div x[2] ELSE -((-x[1]) \div x[2])

\* max(a, b) and min(a, b) of Python: the first argument unless the second
\* is larger / smaller
PyMax(a, b) == IF FLess(a, b) THEN b ELSE a
PyMin(a, b) == IF FLess(b, a) THEN b ELSE a

\* int(normalized * (levels - 1)), truncating
QuantizeFloor(normalized) ==
    IntOf(FlMul(normalized, FInt(QUANTIZATION_LEVELS - 1)))

\* CognitiveStateTokenizer._quantize(value)
quantize(v) ==
    LET value == PyMax(VALUE_RANGE[1], PyMin(VALUE_RANGE[2], v))
        normalized == FlDiv(FlSub(value, VALUE_RANGE[1]),
                            FlSub(VALUE_RANGE[2], VALUE_RANGE[1]))
    IN  QuantizeFloor(normalized)

\* CognitiveStateTokenizer._dequantize(token)
dequantize(token) ==
    LET normalized == FlDiv(FInt(token), FInt(QUANTIZATION_LEVELS - 1))
    IN  FlAdd(FlMul(normalized, FlSub(VALUE_RANGE[2], VALUE_RANGE[1])),
              VALUE_RANGE[1])

\* RoundtripVerifier.max_quantization_error, as the float the code computes
max_quantization_error ==
    FlDiv(FlSub(VALUE_RANGE[2], VALUE_RANGE[1]),
          FInt(QUANTIZATION_LEVELS - 1))

\* the floats handed to _quantize: 0, every float of magnitude in
\* [2^-MinExp, 1], and three values outside the range
Floats ==
    {Zero, One, Frac(-1, 1), Frac(3, 2), Frac(-2, 1), Frac(2, 1)}
    \cup {Frac(sg * m, Pow2(Precision - 1 + k)) :
             sg \in {-1, 1},
             m \in Pow2(Precision - 1)..(Pow2(Precision) - 1),
             k \in 1..MinExp}

\* one round of the verifier's loop: quantized = _quantize(original), then
\* decoded = _dequantize(quantized)
Quantize(x) ==
    /\ qpc # "quantized"
    /\ original' = x
    /\ quantized' = quantize(x)
    /\ decoded' = Zero
    /\ qpc' = "quantized"
    /\ UNCHANGED outsideQuant

Dequantize ==
    /\ qpc = "quantized"
    /\ decoded' = dequantize(quantized)
    /\ qpc' = "decoded"
    /\ UNCHANGED <<original, quantized, outsideQuant>>

NextQuant ==
    \/ \E x \in Floats : Quantize(x)
    \/ Dequantize

SpecQuant == Init /\ [][NextQuant]_vars

\* epsilon = (value_range[1] - value_range[0]) / (quantization_levels - 1)
Epsilon ==
    FDiv(FSub(VALUE_RANGE[2], VALUE_RANGE[1]), FInt(QUANTIZATION_LEVELS - 1))

InValueRange(x) == FLeq(VALUE_RANGE[1], x) /\ FLeq(x, VALUE_RANGE[2])

\* C9: for every x in [-1, 1], _quantize(x) is an integer in 0..255 and
\* |_dequantize(_quantize(x)) - x| <= epsilon = 2/255.
C9_QuantizationErrorBound ==
    (qpc = "decoded" /\ InValueRange(original)) =>
        /\ quantized \in 0..(QUANTIZATION_LEVELS - 1)
        /\ FLeq(FAbs(FSub(decoded, original)), Epsilon)

(***************************************************************************)
(* CognitiveCycle                                                          *)
(***************************************************************************)
NumPhases    == 12
StreamOffset == 4
Streams      == 1..3

\* a cycle whose streams are phased 3 steps apart
get_stream_phase_3(step, stream_id) ==
    ((step + (stream_id - 1) * 3 - 1) % NumPhases) + 1

\* CognitiveCycle._get_stream_phase(stream_id) at current_step = step
get_stream_phase(step, stream_id) ==
    ((step + (stream_id - 1) * StreamOffset - 1) % NumPhases) + 1

\* CognitiveCycle._process_phase(phase, input_data): the phase, the step and,
\* for PERCEIVE with an input, the input; the other keys are the results of
\* the agent's phase methods
process_phase(phase, step, input_data) ==
    [phase |-> phase, step |-> step,
     perceived |-> IF phase = PERCEIVE /\ input_data # NoInput
                   THEN input_data ELSE NoInput]

Inputs == {NoInput, "data"}

\* the trace keeps the last MaxTrace calls
Record(tr, entry) ==
    IF Len(tr) < MaxTrace THEN Append(tr, entry)
    ELSE Append(Tail(tr), entry)

\* CognitiveCycle.step(input_data): what it does to the cycle
StepCycle(input_data) ==
    LET results == [stream_id \in Streams |->
                      process_phase(get_stream_phase(current_step, stream_id),
                                    current_step, input_data)]
    IN  /\ stream_states' = [stream_id \in Streams |->
                               [stream_states[stream_id] EXCEPT
                                  !.data = results[stream_id]]]
        /\ current_step' = (current_step % NumPhases) + 1
        /\ trace' = Record(trace, [input |-> input_data, results |-> results])

\* CognitiveCycle.step(input_data), called on its own
Step(input_data) ==
    /\ StepCycle(input_data)
    /\ UNCHANGED outsideCycle

NextCycle == \E input_data \in Inputs : Step(input_data)

SpecCycle == Init /\ [][NextCycle]_vars

\* x taken modulo 12 into 1..12
Into12(x) == ((x - 1) % 12) + 1

\* the step at which the i-th call of the trace ran
StepOf(i) == trace[i].results[1].step

NewGenerator(max_order) ==
    /\ gen_cache' = precompute((0 :> 0) @@ (1 :> 1), max_order)
    /\ lastEnum' = [op |-> "new", order |-> max_order]
    /\ UNCHANGED <<enum_cache, outsideTree>>

\* A000081Generator.cumulative(n): sum(self[i] for i in range(1, n + 1))
RECURSIVE CumulativeFrom(_, _, _, _)
CumulativeFrom(cache, i, n, total) ==
    IF i > n THEN [cache |-> cache, ret |-> total]
    ELSE CumulativeFrom(GetItemCache(cache, i), i + 1, n,
                        total + GetItem(cache, i))

GenCumulative(n) ==
    LET r == CumulativeFrom(gen_cache, 1, n, 0)
    IN  /\ gen_cache' = r.cache
        /\ lastEnum' = [op |-> "cumulative", order |-> n, ret |-> r.ret]
        /\ UNCHANGED <<enum_cache, outsideTree>>

NextGen ==
    \/ \E max_order \in 0..MaxGenOrder : NewGenerator(max_order)
    \/ \E n \in (-1)..MaxGenOrder : GenGetItem(n)
    \/ \E n \in 0..MaxGenOrder : GenCumulative(n)

SpecGen == Init /\ [][NextGen]_vars

\* the number of unlabeled rooted trees with n nodes, n = 1..12
RootedTreeCounts == <<1, 1, 2, 4, 9, 20, 48, 115, 286, 719, 1842, 4766>>

\* C11: A000081Generator[n] is the number of unlabeled rooted trees with n
\* nodes (1, 1, 2, 4, 9, 20, 48, 115, 286, 719 for n = 1..10), also when n
\* is larger than the max_order of the construction, and generator[0] is 0.
C11_GeneratorValues ==
    lastEnum.op = "getitem" =>
        /\ lastEnum.order \in 1..Len(RootedTreeCounts) =>
               lastEnum.ret = RootedTreeCounts[lastEnum.order]
        /\ lastEnum.order = 0 => lastEnum.ret = 0

\* generator[10] = 719 was computed on demand
C11_Witness ==
    /\ lastEnum.op = "getitem"
    /\ lastEnum.order = 10
    /\ ~lastEnum.cached
    /\ lastEnum.ret = 719

(***************************************************************************)
(* C12: one Node per (type, name)                                          *)
(***************************************************************************)
\* the stored nodes with the given (type, name)
StoredNodes(key) == {u \in by_uuid : IsNode(u) /\ KeyOf(u) = key}

\* C12: add of a Node whose (type, name) is not stored inserts it and
\* increases size() by one; add of a Node whose (type, name) is stored
\* returns the stored node, leaves size() unchanged and only merges the new
\* truth value into the stored node; every stored node is the one get_node
\* returns for its (type, name).
C12_OneNodePerName ==
    [][ (lastAtom'.op = "add" /\ IsNode(lastAtom'.atom)) =>
        LET a   == lastAtom'.atom
            key == KeyOf(a)
        IN  /\ IF StoredNodes(key) = {}
               THEN /\ lastAtom'.ret = a
                    /\ by_uuid' = by_uuid \cup {a}
                    /\ Cardinality(by_uuid') = Size + 1
                    /\ objs' = objs
               ELSE /\ StoredNodes(key) = {lastAtom'.ret}
                    /\ by_uuid' = by_uuid
                    /\ by_type' = by_type
                    /\ by_name' = by_name
                    /\ objs' = [objs EXCEPT ![lastAtom'.ret].tv =
                                   MergeTV(@, objs[a].tv)]
            /\ \A u \in by_uuid' :
                  objs'[u].kind = "node" =>
                     DictGet(by_name', <<objs'[u].atom_type, objs'[u].name>>,
                             NoAtom) = u
      ]_vars

\* the second "A" object was stored first; adding the first "A" object
\* returned the stored one, with the truth value merged into it
C12_Witness ==
    /\ lastAtom.op = "add"
    /\ lastAtom.atom = 1
    /\ lastAtom.ret = 4
    /\ by_uuid = {2, 4}
    /\ get_node(<<"ConceptNode", "A">>) = 4
    /\ objs[4].tv = DefaultTV

(***************************************************************************)
(* PersonalityTensor: attribute access, __setattr__ and evolve             *)
(***************************************************************************)
\* hasattr / getattr: the instance dictionary first, then the class attribute
HasAttr(d, name) == name \in DOMAIN d \cup DOMAIN FieldDefaults
GetAttr(d, name) == IF name \in DOMAIN d THEN d[name] ELSE FieldDefaults[name]

AttributeError == "AttributeError"
TypeError == "TypeError"

\* PersonalityTensor.__setattr__ without its guard: object.__setattr__, which
\* rebinds the instance dictionary when the name is __dict__
SetAttrUnguarded(d, name, value) ==
    [attrs |-> IF name = InstanceDict THEN value ELSE DictPut(d, name, value),
     raised |-> NoException]

\* PersonalityTensor.__setattr__
SetAttr(d, name, value) ==
    IF HasAttr(d, Locked) /\ name \in Ethical
    THEN [attrs |-> d, raised |-> AttributeError]
    ELSE SetAttrUnguarded(d, name, value)

\* max(0.0, min(1.0, x))
Clamp(x) == PyMax(Zero, PyMin(One, x))

\* PersonalityTensor.evolve from entry i of delta (a sequence of
\* <<trait, change>> in the dict's order); adding a number to the instance
\* dictionary raises TypeError
RECURSIVE EvolveFrom(_, _, _)
EvolveFrom(d, delta, i) ==
    IF i > Len(delta) THEN [attrs |-> d, raised |-> NoException]
    ELSE LET trait  == delta[i][1]
             change == delta[i][2]
         IN  IF trait \in Ethical THEN EvolveFrom(d, delta, i + 1)
             ELSE IF trait = InstanceDict
             THEN [attrs |-> d, raised |-> TypeError]
             ELSE LET current == IF HasAttr(d, trait) THEN GetAttr(d, trait)
                                 ELSE Half
                      r == SetAttr(d, trait, Clamp(FAdd(current, change)))
                  IN  EvolveFrom(r.attrs, delta, i + 1)

evolve(d, delta) == EvolveFrom(d, delta, 1)

EvolveNames == {"curiosity", "chaotic", "no_harm_intent", "respect_boundaries",
                "_locked", "mood", "__dict__"}
Changes == {Half, <<-1, 2>>}
DeltaEntries == EvolveNames \X Changes
\* one-entry deltas, and two-entry deltas whose first entry is skipped or raises
Deltas == {<<e>> : e \in DeltaEntries}
          \cup {<<e, f>> : e \in {"no_harm_intent", "__dict__"} \X Changes,
                           f \in {"curiosity"} \X Changes}

AssignNames == {"curiosity", "no_harm_intent", "constructive_chaos",
                "_locked", "mood"}
AssignValues == {Zero, One}
\* dictionaries assigned to __dict__: a copy with one entry overwritten or
\* with _locked left out
Replacements(d) == {DictPut(d, "no_harm_intent", Zero), DictDel(d, Locked)}

\* p = PersonalityTensor(no_harm_intent = nh)
Construct(nh) ==
    /\ attrs' = NewTensor(nh)
    /\ constructed' = EthicalValues(attrs')
    /\ lastSet' = [op |-> "init", name |-> "", raised |-> NoException]
    /\ UNCHANGED outsidePersona

\* p.evolve(delta)
Evolve(delta) ==
    LET r == evolve(attrs, delta)
    IN  /\ attrs' = r.attrs
        /\ lastSet' = [op |-> "evolve", name |-> delta[1][1],
                       raised |-> r.raised]
        /\ UNCHANGED <<constructed, outsidePersona>>

\* p.<name> = value
Assign(name, value) ==
    LET r == SetAttr(attrs, name, value)
    IN  /\ attrs' = r.attrs
        /\ lastSet' = [op |-> "assign", name |-> name, raised |-> r.raised]
        /\ UNCHANGED <<constructed, outsidePersona>>

NextPersona ==
    \/ \E nh \in {Zero, One} : Construct(nh)
    \/ \E delta \in Deltas : Evolve(delta)
    \/ \E name \in AssignNames, value \in AssignValues : Assign(name, value)
    \/ \E value \in Replacements(attrs) : Assign(InstanceDict, value)

SpecPersona == Init /\ [][NextPersona]_vars

\* C13: after any sequence of evolve calls and attribute assignments the three
\* ethical constraints read as they did at construction, and an assignment to
\* one of them raises AttributeError and changes nothing
C13_EthicalConstraintsImmutable ==
    [][/\ lastSet'.op \in {"evolve", "assign"} =>
            \A e \in Ethical : GetAttr(attrs', e) = constructed'[e]
       /\ lastSet'.op = "assign" /\ lastSet'.name \in Ethical =>
            lastSet'.raised = AttributeError /\ attrs' = attrs]_vars

(***************************************************************************)
(* CogFS: paths, resolve_path, read / write / stat                         *)
(***************************************************************************)
\* A path is a sequence of "/" and of slash-free segments, no two segments
\* adjacent.
Slash == "/"

\* path.strip('/')
RECURSIVE LStrip(_)
LStrip(p) == IF p # <<>> /\ Head(p) = Slash THEN LStrip(Tail(p)) ELSE p

RECURSIVE RStrip(_)
RStrip(p) ==
    IF p # <<>> /\ p[Len(p)] = Slash THEN RStrip(SubSeq(p, 1, Len(p) - 1))
    ELSE p

Strip(p) == RStrip(LStrip(p))

\* str.split('/'): the segments between the slashes, "" where two slashes
\* meet or the string is empty
RECURSIVE SplitFrom(_, _, _)
SplitFrom(p, cur, acc) ==
    IF p = <<>> THEN Append(acc, cur)
    ELSE IF Head(p) = Slash THEN SplitFrom(Tail(p), "", Append(acc, cur))
    ELSE SplitFrom(Tail(p), Head(p), acc)

Split(p) == SplitFrom(p, "", <<>>)

\* "/" + "/".join(parts)
RECURSIVE JoinPath(_)
JoinPath(parts) ==
    IF parts = <<>> THEN <<>>
    ELSE <<Slash, Head(parts)>> \o JoinPath(Tail(parts))

\* Atom.uuid as it appears in a path
UuidStr(u) == ToString(u)

\* AtomSpace.get(uuid) for the uuid string of a path
GetByUuidStr(s) ==
    LET found == {u \in by_uuid : UuidStr(u) = s}
    IN  IF found = {} THEN NoAtom ELSE CHOOSE u \in found : TRUE

AtomNode(u) == [kind |-> "atom", atom |-> u]
QueryNode == [kind |-> "query", atom |-> NoAtom]

\* CogFS._nodes
VirtualNodes == {JoinPath(<<"atomspace", "query">>)}

\* CogFS.resolve_path (parts[i] of the code is parts[i + 1] here)
resolve_path(path) ==
    IF path \in VirtualNodes THEN QueryNode
    ELSE LET parts == Split(Strip(path))
         IN  IF Len(parts) < 2 THEN NoNode
             ELSE IF parts[1] # "atomspace" THEN NoNode
             ELSE IF parts[2] = "nodes" /\ Len(parts) >= 4
             THEN LET atom == get_node(<<parts[3], parts[4]>>)
                  IN  IF atom # NoAtom THEN AtomNode(atom) ELSE NoNode
             ELSE IF parts[2] = "links" /\ Len(parts) >= 3
             THEN LET atom == GetByUuidStr(parts[3])
                  IN  IF atom # NoAtom THEN AtomNode(atom) ELSE NoNode
             ELSE NoNode

\* bytes: b'' and the encoding of a JSON value
EmptyBytes == <<>>
Bytes(json) == <<json>>

\* AtomNode.read / QueryNode.read
NodeRead(node) ==
    IF node.kind = "atom" THEN Bytes([uuid |-> node.atom, atom |-> objs[node.atom]])
    ELSE Bytes([results |-> fs_query.results])

\* the data written: bytes that are no JSON, a truth-value update (an
\* all-atoms query when written to /atomspace/query); len is len(data)
BadData == [len |-> 2, json |-> [invalid |-> TRUE]]
TvData == [len |-> 41, json |-> [tv |-> SimpleTV(Half, Half)]]
Datas == {BadData, TvData}

\* updates with an attention part; a part that is not a JSON object (or names
\* an unknown truth-value type) makes from_dict raise
MalformedPart == [malformed |-> TRUE]
AvData      == [len |-> 18, json |-> [av |-> [sti |-> 7]]]
TvAvData    == [len |-> 62, json |-> [tv |-> SimpleTV(Half, Half),
                                      av |-> [sti |-> 7]]]
TvBadAvData == [len |-> 53, json |-> [tv |-> SimpleTV(Half, Half),
                                      av |-> MalformedPart]]
BadTvAvData == [len |-> 27, json |-> [tv |-> MalformedPart,
                                      av |-> [sti |-> 7]]]
WriteDatas == {BadData, TvData, AvData, TvAvData, TvBadAvData, BadTvAvData}

\* AtomNode.write / QueryNode.write: the atoms, the query state, the result
\* (get_all_atoms is listed by type here; its order is not observed); the
\* try block of AtomNode.write assigns tv before it builds av
NodeWrite(node, data) ==
    IF "invalid" \in DOMAIN data.json
    THEN [objs |-> objs, fs_query |-> fs_query, ret |-> -1]
    ELSE IF node.kind = "atom"
    THEN LET update == data.json
             hasTv  == "tv" \in DOMAIN update
             tvBad  == hasTv /\ "malformed" \in DOMAIN update.tv
             hasAv  == "av" \in DOMAIN update
             avBad  == hasAv /\ "malformed" \in DOMAIN update.av
             withTv == IF hasTv /\ ~tvBad
                       THEN [objs EXCEPT ![node.atom].tv = update.tv]
                       ELSE objs
             withAv == IF hasAv /\ ~avBad
                       THEN [withTv EXCEPT ![node.atom].sti = update.av.sti]
                       ELSE withTv
         IN  IF tvBad
             THEN [objs |-> objs, fs_query |-> fs_query, ret |-> -1]
             ELSE IF avBad
             THEN [objs |-> withTv, fs_query |-> fs_query, ret |-> -1]
             ELSE [objs |-> withAv, fs_query |-> fs_query, ret |-> data.len]
    ELSE [objs |-> objs,
          fs_query |-> [last_query |-> data.json,
                        results |-> IF "type" \in DOMAIN data.json
                                    THEN get_atoms_by_type(data.json.type)
                                    ELSE get_atoms_by_type("ConceptNode")
                                         \o get_atoms_by_type("InheritanceLink")
                                         \o get_atoms_by_type("ListLink")],
          ret |-> data.len]

\* AtomNode.stat / QueryNode.stat
NoStat == [type |-> "None"]
NodeStat(node) ==
    IF node.kind = "atom"
    THEN [type |-> "atom", atom_type |-> objs[node.atom].atom_type,
          uuid |-> node.atom, sti |-> objs[node.atom].sti,
          confidence |-> objs[node.atom].tv.confidence]
    ELSE [type |-> "query", last_query |-> fs_query.last_query,
          result_count |-> Len(fs_query.results)]

\* CogFS.read returning None where b'' is due
CogReadNone(node) == IF node # NoNode THEN NodeRead(node) ELSE Bytes(NoNode)

\* CogFS.read / write / stat once the path is resolved
CogRead(node) == IF node # NoNode THEN NodeRead(node) ELSE EmptyBytes
CogWrite(node, data) ==
    IF node # NoNode THEN NodeWrite(node, data)
    ELSE [objs |-> objs, fs_query |-> fs_query, ret |-> -1]
CogStat(node) == IF node # NoNode THEN NodeStat(node) ELSE NoStat

\* the path the CogFS docstring gives an atom
DocumentedPath(u) ==
    IF IsNode(u)
    THEN JoinPath(<<"atomspace", "nodes", objs[u].atom_type, objs[u].name>>)
    ELSE JoinPath(<<"atomspace", "links", objs[u].atom_type, UuidStr(u)>>)

\* a node and a link
FsAtoms == {1, 5}

FsPaths ==
    {DocumentedPath(u) : u \in FsAtoms}
    \cup {JoinPath(<<"atomspace", "links", UuidStr(5)>>),
          JoinPath(<<"atomspace", "query">>),
          <<>>, JoinPath(<<"atomspace">>),
          JoinPath(<<"proc", "1", "status">>),
          JoinPath(<<"atomspace", "nodes", "ConceptNode">>),
          JoinPath(<<"atomspace", "nodes", "Unknown", "A">>),
          JoinPath(<<"atomspace", "nodes", "ConceptNode", "Z">>),
          JoinPath(<<"atomspace", "links", "99">>)}

FsRead(path) ==
    LET node == resolve_path(path)
    IN  /\ lastFs' = [op |-> "read", path |-> path,
                      ret |-> [bytes |-> CogRead(node)],
                      raised |-> NoException]
        /\ UNCHANGED <<atomVars, fs_query, outsideFs>>

FsWrite(path, data) ==
    LET node == resolve_path(path)
        w == CogWrite(node, data)
    IN  /\ objs' = w.objs
        /\ fs_query' = w.fs_query
        /\ lastFs' = [op |-> "write", path |-> path,
                      ret |-> [written |-> w.ret], raised |-> NoException]
        /\ UNCHANGED <<by_uuid, by_type, by_name, inferences, lastAtom,
                       outsideFs>>

FsStat(path) ==
    LET node == resolve_path(path)
    IN  /\ lastFs' = [op |-> "stat", path |-> path,
                      ret |-> [stat |-> CogStat(node)],
                      raised |-> NoException]
        /\ UNCHANGED <<atomVars, fs_query, outsideFs>>

NextFs ==
    \/ \E u \in FsAtoms : Add(u)
    \/ \E u \in FsAtoms : Remove(u)
    \/ \E path \in FsPaths : FsRead(path)
    \/ \E path \in FsPaths, data \in Datas : FsWrite(path, data)
    \/ \E path \in FsPaths : FsStat(path)

SpecFs == Init /\ [][NextFs]_vars

\* C14: every atom stored in the AtomSpace resolves, at the path the CogFS
\* docstring gives it (/atomspace/nodes/<type>/<name> for a node,
\* /atomspace/links/<type>/<uuid> for a link), to a node for exactly that atom
C14_AtomsReachableAtDocumentedPath ==
    \A u \in by_uuid : resolve_path(DocumentedPath(u)) = AtomNode(u)

\* C15: on a path resolve_path cannot resolve, read returns b'', write returns
\* -1 and stat returns None, nothing is raised, and the AtomSpace and the
\* scheduler stay as they were
C15_UnresolvableSentinels ==
    [][lastFs' # lastFs
       /\ lastFs'.op \in {"read", "write", "stat"}
       /\ resolve_path(lastFs'.path) = NoNode =>
         /\ lastFs'.op = "read" => lastFs'.ret.bytes = EmptyBytes
         /\ lastFs'.op = "write" => lastFs'.ret.written = -1
         /\ lastFs'.op = "stat" => lastFs'.ret.stat = NoStat
         /\ lastFs'.raised = NoException
         /\ UNCHANGED <<atomVars, schedVars>>]_vars

C15_Witness ==
    /\ lastFs.op = "write"
    /\ lastFs.path = DocumentedPath(5)
    /\ 5 \in by_uuid
    /\ lastFs.ret.written = -1

(***************************************************************************)
(* OpenCogLayer / OpenCogEncoder / OpenCogModel forward                    *)
(* Tensors are abstract: a tensor is named by the component and the layer  *)
(* that produced it.                                                       *)
(***************************************************************************)
Tensor(comp, layer) == [comp |-> comp, layer |-> layer]
NoTensor == [op |-> "None", of |-> <<>>]

\* torch.stack(outputs).mean(dim=0) if outputs else None
MeanOf(outputs) ==
    IF outputs # <<>> THEN [op |-> "mean", of |-> outputs] ELSE NoTensor

\* cognitive_outputs.values() of OpenCogLayer.forward, in insertion order
CognitiveOutputs(config, layer) ==
    (IF config.pln_enabled THEN <<Tensor("pln", layer)>> ELSE <<>>)
    \o (IF config.moses_enabled THEN <<Tensor("moses", layer)>> ELSE <<>>)
    \o (IF config.openpsi_enabled THEN <<Tensor("openpsi", layer)>> ELSE <<>>)

\* OpenCogLayer.forward: (layer_output,) + outputs + the cognitive outputs,
\* where outputs holds the attention probabilities iff output_attentions
LayerForward(config, output_attentions, layer) ==
    <<Tensor("hidden", layer)>>
    \o (IF output_attentions THEN <<Tensor("attention", layer)>> ELSE <<>>)
    \o CognitiveOutputs(config, layer)

\* OpenCogEncoder.forward, "Collect cognitive outputs": layer_outputs[k] of
\* the code is layer_outputs[k + 1] here
Collect(acc, config, output_attentions, layer) ==
    LET layer_outputs == LayerForward(config, output_attentions, layer)
        cognitive_start_idx == IF ~output_attentions THEN 2 ELSE 3
        at(k) == IF Len(layer_outputs) > 2 /\ Len(layer_outputs) > k
                 THEN <<layer_outputs[k + 1]>> ELSE <<>>
    IN  [pln |-> acc.pln \o at(cognitive_start_idx),
         moses |-> acc.moses \o at(cognitive_start_idx + 1),
         openpsi |-> acc.openpsi \o at(cognitive_start_idx + 2)]

\* the loop over self.layer
RECURSIVE EncoderLoop(_, _, _, _, _)
EncoderLoop(acc, config, output_attentions, layer, num_layers) ==
    IF layer > num_layers THEN acc
    ELSE EncoderLoop(Collect(acc, config, output_attentions, layer),
                     config, output_attentions, layer + 1, num_layers)

\* OpenCogOutput(last_hidden_state = ..., ...): when forward runs, the module
\* name OpenCogOutput is bound to the nn.Module defined last, whose
\* __init__(self, config) takes no keyword arguments
OpenCogOutput(fields) == [raised |-> TypeError, value |-> [none |-> TRUE]]

\* OpenCogEncoder.forward
EncoderForward(config, output_attentions, output_hidden_states, return_dict, num_layers) ==
    LET acc == EncoderLoop([pln |-> <<>>, moses |-> <<>>, openpsi |-> <<>>],
                           config, output_attentions, 1, num_layers)
        final == [pln_reasoning_output |-> MeanOf(acc.pln),
                  moses_evolution_output |-> MeanOf(acc.moses),
                  openpsi_control_output |-> MeanOf(acc.openpsi)]
        returned ==
            IF ~return_dict
            THEN [raised |-> NoException,
                  value |-> [tuple |->
                      <<Tensor("hidden", num_layers)>>
                      \o (IF output_hidden_states
                          THEN <<Tensor("all_hidden_states", num_layers)>>
                          ELSE <<>>)
                      \o (IF output_attentions
                          THEN <<Tensor("all_self_attentions", num_layers)>>
                          ELSE <<>>)]]
            ELSE OpenCogOutput(final)
    IN  [final |-> final, raised |-> returned.raised,
         value |-> returned.value]

Configs == [pln_enabled : BOOLEAN, moses_enabled : BOOLEAN,
            openpsi_enabled : BOOLEAN]

\* model(input_ids, output_attentions = ..., output_hidden_states = ...,
\* return_dict = ...): the encoder's exception passes through
\* OpenCogModel.forward
Forward(config, output_attentions, output_hidden_states, return_dict, num_layers) ==
    LET r == EncoderForward(config, output_attentions, output_hidden_states,
                            return_dict, num_layers)
    IN  /\ lastForward' = [op |-> "forward", config |-> config,
                           output_attentions |-> output_attentions,
                           output_hidden_states |-> output_hidden_states,
                           return_dict |-> return_dict,
                           num_layers |-> num_layers,
                           final |-> r.final, raised |-> r.raised,
                           value |-> r.value]
        /\ UNCHANGED outsideModel

NextModel ==
    \E config \in Configs, output_attentions \in BOOLEAN,
       output_hidden_states \in BOOLEAN, return_dict \in BOOLEAN,
       num_layers \in 1..MaxLayers :
        Forward(config, output_attentions, output_hidden_states, return_dict,
                num_layers)

SpecModel == Init /\ [][NextModel]_vars

\* the mean over the layers of one component's outputs
LayerMean(comp, num_layers) ==
    MeanOf([layer \in 1..num_layers |-> Tensor(comp, layer)])

\* C16: a forward call of the model returns an output whose
\* pln_reasoning_output, moses_evolution_output and openpsi_control_output
\* are present whenever the component is enabled in the config, each the
\* aggregate of that component's layer outputs, for every combination of
\* the three flags, with output_attentions off and on
C16_CognitiveOutputsPresent ==
    lastForward.op = "forward" /\ lastForward.return_dict =>
        /\ lastForward.raised = NoException
        /\ lastForward.config.pln_enabled =>
             lastForward.final.pln_reasoning_output
                 = LayerMean("pln", lastForward.num_layers)
        /\ lastForward.config.moses_enabled =>
             lastForward.final.moses_evolution_output
                 = LayerMean("moses", lastForward.num_layers)
        /\ lastForward.config.openpsi_enabled =>
             lastForward.final.openpsi_control_output
                 = LayerMean("openpsi", lastForward.num_layers)

(***************************************************************************)
(* CognitiveStateTokenizer: discrete fields and the complete snapshot      *)
(***************************************************************************)
NUM_STREAMS == 3
CYCLE_LENGTH == 12
PERCEPTION_DIM == 4
ACTION_DIM == 4
SIMULATION_DIM == 9
BOS_TOKEN_ID == 1
EOS_TOKEN_ID == 2
perception_offset == 1000
action_offset == 2000
simulation_offset == 3000
stream_offset == 100
step_offset == 300

AssertionError == "AssertionError"

\* a call that returned value / a call that raised e
Returned(value) == [raised |-> NoException, value |-> value]
Raised(e) == [raised |-> e, value |-> <<>>]

\* tokens[a:b], indices as in the code
Slice(tokens, a, b) == SubSeq(tokens, a + 1, Min(b, Len(tokens)))

\* CognitiveStateTokenizer.encode_stream_id
encode_stream_id(stream_id) ==
    IF ~(1 <= stream_id /\ stream_id <= NUM_STREAMS)
    THEN Raised(AssertionError)
    ELSE Returned(<<stream_offset + stream_id - 1>>)

\* CognitiveStateTokenizer.decode_stream_id
decode_stream_id(tokens) ==
    IF Len(tokens) # 1 THEN Raised(AssertionError)
    ELSE Returned(tokens[1] - stream_offset + 1)

\* CognitiveStateTokenizer.encode_step_number
encode_step_number(step) ==
    IF ~(1 <= step /\ step <= CYCLE_LENGTH) THEN Raised(AssertionError)
    ELSE Returned(<<step_offset + step - 1>>)

\* decode_step_number without the "+ 1"
decode_step_number_raw(tokens) ==
    IF Len(tokens) # 1 THEN Raised(AssertionError)
    ELSE Returned(tokens[1] - step_offset)

\* CognitiveStateTokenizer.decode_step_number
decode_step_number(tokens) ==
    IF Len(tokens) # 1 THEN Raised(AssertionError)
    ELSE Returned(tokens[1] - step_offset + 1)

\* the components of the vectors encoded
VectorValues == {Frac(-1, 1), Zero, Half, One}

\* _quantize and _dequantize, tabulated over the values that occur
QuantizeTable == [x \in VectorValues |-> quantize(x)]
DequantizeTable == [q \in 0..(QUANTIZATION_LEVELS - 1) |-> dequantize(q)]
Quantized(x) ==
    IF x \in DOMAIN QuantizeTable THEN QuantizeTable[x] ELSE quantize(x)
Dequantized(q) ==
    IF q \in DOMAIN DequantizeTable THEN DequantizeTable[q]
    ELSE dequantize(q)

\* encode_perception / encode_action / encode_simulation
encode_vector(state, dim, offset) ==
    IF Len(state) # dim THEN Raised(AssertionError)
    ELSE Returned([i \in 1..dim |-> offset + Quantized(state[i])])

\* decode_perception / decode_action / decode_simulation
decode_vector(tokens, dim, offset) ==
    IF Len(tokens) # dim THEN Raised(AssertionError)
    ELSE Returned([i \in 1..dim |-> Dequantized(tokens[i] - offset)])

\* CognitiveStateTokenizer.encode_cognitive_state: the first part that raises
\* ends the call
encode_cognitive_state(stream_id, step, perception, action, simulation) ==
    LET s == encode_stream_id(stream_id)
        k == encode_step_number(step)
        p == encode_vector(perception, PERCEPTION_DIM, perception_offset)
        a == encode_vector(action, ACTION_DIM, action_offset)
        v == encode_vector(simulation, SIMULATION_DIM, simulation_offset)
    IN  IF s.raised # NoException THEN s
        ELSE IF k.raised # NoException THEN k
        ELSE IF p.raised # NoException THEN p
        ELSE IF a.raised # NoException THEN a
        ELSE IF v.raised # NoException THEN v
        ELSE Returned(<<BOS_TOKEN_ID>> \o s.value \o k.value \o p.value
                      \o a.value \o v.value \o <<EOS_TOKEN_ID>>)

\* CognitiveStateTokenizer.decode_cognitive_state
decode_cognitive_state(tokens) ==
    IF tokens = <<>> THEN Raised(IndexError)
    ELSE IF tokens[1] # BOS_TOKEN_ID THEN Raised(AssertionError)
    ELSE IF tokens[Len(tokens)] # EOS_TOKEN_ID THEN Raised(AssertionError)
    ELSE LET s == decode_stream_id(Slice(tokens, 1, 2))
             k == decode_step_number(Slice(tokens, 2, 3))
             p == decode_vector(Slice(tokens, 3, 3 + PERCEPTION_DIM),
                                PERCEPTION_DIM, perception_offset)
             a == decode_vector(Slice(tokens, 3 + PERCEPTION_DIM,
                                      3 + PERCEPTION_DIM + ACTION_DIM),
                                ACTION_DIM, action_offset)
             v == decode_vector(Slice(tokens, 3 + PERCEPTION_DIM + ACTION_DIM,
                                      3 + PERCEPTION_DIM + ACTION_DIM
                                        + SIMULATION_DIM),
                                SIMULATION_DIM, simulation_offset)
         IN  IF s.raised # NoException THEN s
             ELSE IF k.raised # NoException THEN k
             ELSE IF p.raised # NoException THEN p
             ELSE IF a.raised # NoException THEN a
             ELSE IF v.raised # NoException THEN v
             ELSE Returned([stream_id |-> s.value, step |-> k.value,
                            perception |-> p.value, action |-> a.value,
                            simulation |-> v.value])

\* token lists handed to the one-token decoders
DecodeTokens == {0, 99, 100, 102, 103, 300, 311, 312}
TokenLists == {<<>>} \cup {<<t>> : t \in DecodeTokens} \cup {<<100, 300>>}

\* np.full(n, x)
Vec(n, x) == [i \in 1..n |-> x]
\* token lists handed to decode_cognitive_state: too short ones, ones without
\* BOS / EOS, and BOS, two arbitrary tokens, a body, EOS
Body == Vec(PERCEPTION_DIM, perception_offset + 127)
        \o Vec(ACTION_DIM, action_offset)
        \o Vec(SIMULATION_DIM, simulation_offset + 255)
SnapshotLists ==
    {<<>>, <<BOS_TOKEN_ID, EOS_TOKEN_ID>>, <<EOS_TOKEN_ID, BOS_TOKEN_ID>>,
     <<BOS_TOKEN_ID, 100, EOS_TOKEN_ID>>, <<BOS_TOKEN_ID, 100, 300>> \o Body}
    \cup {<<BOS_TOKEN_ID, t, u>> \o Body \o <<EOS_TOKEN_ID>> :
             t \in {0, 100, 102, 103}, u \in {EOS_TOKEN_ID, 300, 311, 312}}

Tok(op, arg, tokens, r) ==
    [op |-> op, arg |-> arg, tokens |-> tokens, raised |-> r.raised,
     value |-> r.value]

\* tokenizer.decode_stream_id(tokens)
DecodeStreamId(tokens) ==
    /\ lastTok' = Tok("decode_stream_id", 0, tokens, decode_stream_id(tokens))
    /\ UNCHANGED outsideTok

\* tokenizer.decode_step_number(tokens)
DecodeStepNumber(tokens) ==
    /\ lastTok' = Tok("decode_step_number", 0, tokens,
                      decode_step_number(tokens))
    /\ UNCHANGED outsideTok

\* tokenizer.decode_cognitive_state(tokens)
DecodeCognitiveState(tokens) ==
    /\ lastTok' = Tok("decode_cognitive_state", 0, tokens,
                      decode_cognitive_state(tokens))
    /\ UNCHANGED outsideTok

\* decoded = decode_stream_id(encode_stream_id(stream_id))
VerifyStreamId(stream_id) ==
    LET encoded == encode_stream_id(stream_id)
    IN  /\ lastTok' =
             IF encoded.raised # NoException
             THEN Tok("verify_stream_id", stream_id, <<>>, encoded)
             ELSE Tok("verify_stream_id", stream_id, encoded.value,
                      decode_stream_id(encoded.value))
        /\ UNCHANGED outsideTok

\* decoded = decode_step_number(encode_step_number(step))
VerifyStepNumber(step) ==
    LET encoded == encode_step_number(step)
    IN  /\ lastTok' =
             IF encoded.raised # NoException
             THEN Tok("verify_step_number", step, <<>>, encoded)
             ELSE Tok("verify_step_number", step, encoded.value,
                      decode_step_number(encoded.value))
        /\ UNCHANGED outsideTok

\* decode_cognitive_state(encode_cognitive_state(stream_id, step, p, a, v))
VerifyCognitiveState(stream_id, step, perception, action, simulation) ==
    LET encoded == encode_cognitive_state(stream_id, step, perception, action,
                                          simulation)
        arg == [stream_id |-> stream_id, step |-> step,
                perception |-> perception, action |-> action,
                simulation |-> simulation]
    IN  /\ lastTok' =
             IF encoded.raised # NoException
             THEN Tok("verify_cognitive_state", arg, <<>>, encoded)
             ELSE Tok("verify_cognitive_state", arg, encoded.value,
                      decode_cognitive_state(encoded.value))
        /\ UNCHANGED outsideTok

NextTok ==
    \/ \E tokens \in TokenLists : DecodeStreamId(tokens)
    \/ \E tokens \in TokenLists : DecodeStepNumber(tokens)
    \/ \E tokens \in SnapshotLists : DecodeCognitiveState(tokens)
    \/ \E stream_id \in 0..(NUM_STREAMS + 1) : VerifyStreamId(stream_id)
    \/ \E step \in 0..(CYCLE_LENGTH + 1) : VerifyStepNumber(step)
    \/ \E stream_id \in 0..(NUM_STREAMS + 1), step \in 0..(CYCLE_LENGTH + 1),
          x \in VectorValues :
          VerifyCognitiveState(stream_id, step, Vec(PERCEPTION_DIM, x),
                               Vec(ACTION_DIM, One), Vec(SIMULATION_DIM, x))

SpecTok == Init /\ [][NextTok]_vars

\* C17: decode_stream_id returns a value in 1..3 and decode_step_number a
\* value in 1..12 for every list of one token, and decode_cognitive_state
\* returns a stream_id in 1..3 and a step in 1..12 for every token list that
\* starts with BOS and ends with EOS
C17_DecodePostconditions ==
    /\ lastTok.op = "decode_stream_id" /\ Len(lastTok.tokens) = 1 =>
         lastTok.raised = NoException /\ lastTok.value \in 1..NUM_STREAMS
    /\ lastTok.op = "decode_step_number" /\ Len(lastTok.tokens) = 1 =>
         lastTok.raised = NoException /\ lastTok.value \in 1..CYCLE_LENGTH
    /\ (/\ lastTok.op = "decode_cognitive_state"
        /\ lastTok.tokens # <<>>
        /\ lastTok.tokens[1] = BOS_TOKEN_ID
        /\ lastTok.tokens[Len(lastTok.tokens)] = EOS_TOKEN_ID) =>
         /\ lastTok.raised = NoException
         /\ lastTok.value.stream_id \in 1..NUM_STREAMS
         /\ lastTok.value.step \in 1..CYCLE_LENGTH

\* C18: decode_stream_id(encode_stream_id(s)) = s for s in 1..3,
\* decode_step_number(encode_step_number(k)) = k for k in 1..12, and
\* decode_cognitive_state(encode_cognitive_state(s, k, p, a, v)) returns the
\* same s and k for vectors p, a, v of the required lengths
C18_DiscreteRoundTrip ==
    /\ lastTok.op = "verify_stream_id" /\ lastTok.arg \in 1..NUM_STREAMS =>
         lastTok.raised = NoException /\ lastTok.value = lastTok.arg
    /\ lastTok.op = "verify_step_number" /\ lastTok.arg \in 1..CYCLE_LENGTH =>
         lastTok.raised = NoException /\ lastTok.value = lastTok.arg
    /\ (/\ lastTok.op = "verify_cognitive_state"
        /\ lastTok.arg.stream_id \in 1..NUM_STREAMS
        /\ lastTok.arg.step \in 1..CYCLE_LENGTH) =>
         /\ lastTok.raised = NoException
         /\ lastTok.value.stream_id = lastTok.arg.stream_id
         /\ lastTok.value.step = lastTok.arg.step

C18_Witness ==
    /\ lastTok.op = "verify_cognitive_state"
    /\ lastTok.arg.stream_id = NUM_STREAMS
    /\ lastTok.arg.step = CYCLE_LENGTH
    /\ lastTok.tokens[2] = stream_offset + 2
    /\ lastTok.tokens[3] = step_offset + 11
    /\ Len(lastTok.tokens) = 21
    /\ lastTok.value.stream_id = NUM_STREAMS
    /\ lastTok.value.step = CYCLE_LENGTH

(***************************************************************************)
(* OuroborosAgent.think                                                    *)
(***************************************************************************)
MemoryLimit == 1000
MemoryKeep == 500

\* the episode think() records; of its fields the step and the input are kept
EpisodePrevious(count, input_data) == [step |-> count - 1, input |-> input_data]

Episode(count, input_data) == [step |-> count, input |-> input_data]

\* a trim that keeps the oldest episodes: memory[:500]
TrimMemoryOldest(memory) ==
    IF Len(memory) > MemoryLimit
    THEN SubSeq(memory, 1, MemoryKeep)
    ELSE memory

\* "Trim episodic memory if too large": memory[-500:]
TrimMemory(memory) ==
    IF Len(memory) > MemoryLimit
    THEN SubSeq(memory, Len(memory) - MemoryKeep + 1, Len(memory))
    ELSE memory

\* agent.think(input_data)
Think(input_data) ==
    /\ step_count < MaxCalls
    /\ input_data # NoInput => step_count < MaxDataCalls
    /\ step_count' = step_count + 1
    /\ StepCycle(input_data)
    /\ episodic_memory' =
         TrimMemory(Append(episodic_memory, Episode(step_count', input_data)))
    /\ UNCHANGED outsideAgent

NextAgent == \E input_data \in Inputs : Think(input_data)

SpecAgent == Init /\ [][NextAgent]_vars

\* the input of the call just made, as the cognitive cycle saw it
LastInput == trace[Len(trace)].input

\* C19: each think() call increases step_count by one and appends one episode
\* recording the new step count and the call's input; while at most 1000
\* calls have been made, episodic_memory[i] (from 0) is the episode of call
\* i + 1
C19_ThinkRecordsEpisode ==
    [][/\ step_count' = step_count + 1
       /\ episodic_memory' # <<>>
       /\ episodic_memory'[Len(episodic_memory')]
            = [step |-> step_count', input |-> LastInput']
       /\ \E k \in 0..Len(episodic_memory) :
            episodic_memory'
              = SubSeq(episodic_memory, k + 1, Len(episodic_memory))
                \o <<episodic_memory'[Len(episodic_memory')]>>
       /\ step_count' <= MemoryLimit =>
            /\ Len(episodic_memory') = step_count'
            /\ episodic_memory' = Append(episodic_memory,
                                         episodic_memory'[step_count'])
            /\ \A i \in 1..step_count' : episodic_memory'[i].step = i]_vars

C19_Witness ==
    /\ step_count = NumPhases + 1
    /\ Len(episodic_memory) = step_count
    /\ episodic_memory[2].input = "data"
    /\ episodic_memory[step_count] = [step |-> step_count, input |-> NoInput]

\* C27: episodic memory never holds more than 1000 episodes; the append that
\* makes it 1001 long cuts it to its 500 most recent episodes; the stored
\* episodes carry consecutive step numbers, in increasing order, ending at
\* step_count.
C27_EpisodicMemoryBounded ==
    [][/\ Len(episodic_memory') <= MemoryLimit
       /\ Len(episodic_memory) = MemoryLimit =>
            /\ Len(episodic_memory') = MemoryKeep
            /\ SubSeq(episodic_memory', 1, MemoryKeep - 1)
                 = SubSeq(episodic_memory, MemoryLimit - MemoryKeep + 2,
                          MemoryLimit)
       /\ Len(episodic_memory) < MemoryLimit =>
            Len(episodic_memory') = Len(episodic_memory) + 1
       /\ \A i \in 1..Len(episodic_memory') :
            episodic_memory'[i].step
              = step_count' - Len(episodic_memory') + i]_vars

\* the call that follows the first trim: 501 episodes, steps 502..1002
C27_Witness ==
    /\ step_count = MemoryLimit + 2
    /\ Len(episodic_memory) = MemoryKeep + 1
    /\ episodic_memory[1].step = MemoryLimit - MemoryKeep + 2
    /\ episodic_memory[MemoryKeep + 1].step = step_count

(***************************************************************************)
(* CogKernel.boot / shutdown                                               *)
(***************************************************************************)
NextBoot ==
    \/ \E a \in Args : Fork(a)
    \/ Schedule
    \/ \E pid \in AllPids : Block(pid)
    \/ \E pid \in AllPids : Kill(pid)
    \/ Boot
    \/ Shutdown

SpecBoot == Init /\ [][NextBoot]_vars

NextPreempt ==
    \/ \E pid \in DirectPids, prio \in DirectPrio :
          AddProcess(pid, prio, ForkSTI, TRUE)
    \/ Schedule
    \/ \E pid \in DirectPids : ExecStart(pid)
    \/ \E o \in Outcomes : ExecFinish(o)
    \/ \E pid \in DirectPids : Preempt(pid)

SpecPreempt == Init /\ [][NextPreempt]_vars

\* the scheduler operations alone: no process is executed or killed
NextReady ==
    \/ \E pid \in DirectPids, prio \in DirectPrio :
          AddProcess(pid, prio, ForkSTI, FALSE)
    \/ Schedule
    \/ \E pid \in DirectPids : Block(pid)
    \/ \E pid \in DirectPids : Unblock(pid)
    \/ \E pid \in DirectPids : Preempt(pid)

SpecReady == Init /\ [][NextReady]_vars

\* the ready-queue entries that carry pid
EntriesOf(q, pid) == {i \in 1..Len(q) : q[i][2] = pid}

\* C21: a RUNNING process whose priority is CRITICAL cannot be preempted:
\* preempt leaves it RUNNING and adds no ready-queue entry for it.
C21_CriticalNotPreempted ==
    [][\A pid \in DOMAIN all_procs :
         ( /\ lastCall'.op = "preempt"
           /\ lastCall'.pid = pid
           /\ all_procs[pid].state = RUNNING
           /\ all_procs[pid].priority = CRITICAL )
         => /\ all_procs'[pid].state = RUNNING
            /\ ready_queue' = ready_queue]_vars

\* C22: TERMINATED is a final state: no operation changes the state of a
\* TERMINATED process, calls its function again, or has schedule() return it.
C22_TerminatedIsFinal ==
    [][\A pid \in DOMAIN all_procs :
         all_procs[pid].state = TERMINATED
         => /\ all_procs'[pid].state = TERMINATED
            /\ ~(lastCall'.op = "call" /\ lastCall'.pid = pid)
            /\ ~(lastCall'.op = "schedule" /\ lastCall'.pid = pid)]_vars

\* C23: when schedule() has made p the running process, preempt(p) leaves p
\* READY with a ready-queue entry and sets scheduler.running to None.
C23_PreemptRequeuesRunning ==
    [][\A pid \in DOMAIN all_procs :
         ( /\ running = pid
           /\ lastCall'.op = "preempt"
           /\ lastCall'.pid = pid )
         => /\ all_procs'[pid].state = READY
            /\ EntriesOf(ready_queue', pid) # {}
            /\ running' = NoPid]_vars

\* C24: the ready queue holds at most one entry for a pid whose process is
\* READY, so a process is handed out once per time it becomes READY.
C24_OneEntryPerReadyProcess ==
    \A pid \in DOMAIN all_procs :
        all_procs[pid].state = READY
        => Cardinality(EntriesOf(ready_queue, pid)) <= 1

\* C25: the waiting table holds exactly the processes whose state is WAITING.
C25_WaitingTableExact ==
    waiting = {pid \in DOMAIN all_procs : all_procs[pid].state = WAITING}

(***************************************************************************)
(* CogKernel.stats                                                         *)
(***************************************************************************)
NextStats ==
    \/ \E a \in Args : Fork(a)
    \/ \E pid \in 1..MaxProcs : ExecStart(pid)
    \/ \E o \in Outcomes : ExecFinish(o)
    \/ \E pid \in 1..MaxProcs : Kill(pid)
    \/ Shutdown

SpecStats == Init /\ [][NextStats]_vars

\* C29: processes_created is the size of the scheduler's process table, and
\* processes_terminated, counting a process at most once, never exceeds it.
C29_StatsConsistent ==
    /\ stats.processes_created = Cardinality(DOMAIN all_procs)
    /\ stats.processes_terminated <= stats.processes_created

(***************************************************************************)
(* AtomNode.write through CogFS.write                                      *)
(***************************************************************************)
\* a node and a link, written at the paths that resolve to them
WritePaths ==
    {DocumentedPath(1), JoinPath(<<"atomspace", "links", UuidStr(5)>>)}

NextWrite ==
    \/ \E u \in FsAtoms : Add(u)
    \/ \E path \in WritePaths, data \in WriteDatas : FsWrite(path, data)
    \/ \E path \in WritePaths : FsRead(path)

SpecWrite == Init /\ [][NextWrite]_vars

\* C28: a failed atom write changes nothing: when CogFS.write on an atom path
\* returns -1, the atom's truth value and attention value are as they were
\* (and a write that does not fail returns a length, never another value).
C28_FailedWriteChangesNothing ==
    [][( /\ lastFs'.op = "write"
         /\ lastFs' # lastFs
         /\ resolve_path(lastFs'.path).kind = "atom" )
       => LET u == resolve_path(lastFs'.path).atom
          IN  /\ lastFs'.ret.written = -1 =>
                   /\ objs'[u].tv = objs[u].tv
                   /\ objs'[u].sti = objs[u].sti
              /\ lastFs'.ret.written # -1 =>
                   lastFs'.ret.written \in {d.len : d \in WriteDatas}]_vars

(***************************************************************************)
(* EmotionalState                                                          *)
(***************************************************************************)
\* "Map emotions to VAD": valence, arousal, dominance
emotion_map ==
    [e \in {"joy", "curiosity", "frustration", "satisfaction", "confusion",
            "excitement", "neutral"} |->
       CASE e = "joy"          -> <<Frac(8, 10), Frac(7, 10), Frac(6, 10)>>
         [] e = "curiosity"    -> <<Frac(6, 10), Frac(6, 10), Half>>
         [] e = "frustration"  -> <<Frac(-4, 10), Frac(7, 10), Frac(4, 10)>>
         [] e = "satisfaction" -> <<Frac(7, 10), Frac(3, 10), Frac(6, 10)>>
         [] e = "confusion"    -> <<Frac(-2, 10), Half, Frac(3, 10)>>
         [] e = "excitement"   -> <<Frac(7, 10), Frac(9, 10), Frac(7, 10)>>
         [] e = "neutral"      -> <<Zero, Half, Half>>]

\* EmotionalState.update(emotion, intensity, duration)
update(self, e, intensity, duration) ==
    LET set == [self EXCEPT !.primary_emotion = e, !.intensity = intensity,
                            !.duration = duration]
    IN  IF e \in DOMAIN emotion_map
        THEN [set EXCEPT !.valence = emotion_map[e][1],
                         !.arousal = emotion_map[e][2],
                         !.dominance = emotion_map[e][3]]
        ELSE set

\* a decay that counts the duration down and keeps the emotion
decay_keep(self, rate) ==
    [self EXCEPT !.intensity = FMul(@, FSub(One, rate)),
                 !.duration = Max(0, @ - 1)]

\* EmotionalState.decay(rate)
decay(self, rate) ==
    LET d == Max(0, self.duration - 1)
    IN  [self EXCEPT !.intensity = FMul(@, FSub(One, rate)),
                     !.duration = d,
                     !.primary_emotion = IF d = 0 THEN "neutral" ELSE @]

\* the values handed to update and decay: a known emotion, one that the map
\* does not list, "neutral" itself; the rates of think() and of the test
Emotions    == {"joy", "frustration", "awe", "neutral"}
Intensities == {Frac(8, 10)}
Rates       == {Frac(1, 10), Half}

UpdateEmotion(e, intensity, duration) ==
    /\ emotion' = update(emotion, e, intensity, duration)
    /\ lastEmotion' = [op |-> "update", emotion |-> e, duration |-> duration,
                       decays |-> 0]
    /\ UNCHANGED outsideEmotion

DecayEmotion(rate) ==
    /\ lastEmotion.decays < MaxDecays
    /\ emotion' = decay(emotion, rate)
    /\ lastEmotion' = [lastEmotion EXCEPT !.op = "decay", !.decays = @ + 1]
    /\ UNCHANGED outsideEmotion

NextEmotion ==
    \/ \E e \in Emotions, i \in Intensities, d \in 0..MaxDuration :
          UpdateEmotion(e, i, d)
    \/ \E rate \in Rates : DecayEmotion(rate)

SpecEmotion == Init /\ [][NextEmotion]_vars

\* C30: after update(e, i, d) with d >= 1 the primary emotion is e through
\* the next d - 1 decay() calls and "neutral" from the d-th on; each decay
\* lowers duration by one, and duration never goes below 0.
C30_EmotionCountdown ==
    /\ emotion.duration >= 0
    /\ lastEmotion.duration >= 1 =>
         /\ lastEmotion.decays < lastEmotion.duration =>
              /\ emotion.primary_emotion = lastEmotion.emotion
              /\ emotion.duration = lastEmotion.duration - lastEmotion.decays
         /\ lastEmotion.decays >= lastEmotion.duration =>
              /\ emotion.primary_emotion = "neutral"
              /\ emotion.duration = 0

\* update("joy", 0.8, 3) followed by three decays: joy has just ended
C30_Witness ==
    /\ lastEmotion.op = "decay"
    /\ lastEmotion.emotion = "joy"
    /\ lastEmotion.duration = MaxDuration
    /\ lastEmotion.decays = MaxDuration
    /\ emotion.primary_emotion = "neutral"
    /\ emotion.duration = 0

(***************************************************************************)
(* RootedTree.to_atomspace (bridge/ontogenetic_atomspace_bridge.py)        *)
(***************************************************************************)
\* the trees of orders 1..3 as the enumerator labels them
Tau11 == RootedTree(<<>>, "tau_1_1")
Tau21 == [BuildTree(<<Tau11>>, 2, 1) EXCEPT !.label = "tau_2_1"]
Tau32 == [BuildTree(<<Tau11, Tau11>>, 3, 2) EXCEPT !.label = "tau_3_2"]
LabelledTrees == {Tau11, Tau21, Tau32}

\* RootedTree.to_atomspace(atomspace, parent_node) on the store st: the
\* ConceptNode and the InheritanceLink are new objects, add() is called for
\* each and its return value is not used; ret is the node object created
RECURSIVE to_atomspace(_, _, _)
to_atomspace(st, t, parent_node) ==
    LET tv   == SimpleTV(One, FSub(One, Frac(1, t.order + 1)))
        sti  == Frac(1, t.symmetry_factor)
        node == Len(st.objs) + 1
        st1  == AddAtom([st EXCEPT !.objs =
                           Append(@, [MkNode("ConceptNode", t.label, tv)
                                        EXCEPT !.sti = sti])],
                        node)
        link == Len(st1.objs) + 1
        st2  == IF parent_node # NoAtom
                THEN AddAtom([st1 EXCEPT !.objs =
                                Append(@, [InheritanceLink(node, parent_node, tv)
                                             EXCEPT !.sti = sti])],
                             link)
                ELSE st1
        RECURSIVE Children(_, _)
        Children(s, i) ==
            IF i > Len(t.children) THEN s
            ELSE Children(to_atomspace(s, t.children[i], node), i + 1)
    IN  [Children(st2, 1) EXCEPT !.ret = node]

\* tree.to_atomspace(atomspace, parent_node), the parent being None or a
\* stored node (the bridge passes the order node it has just added)
ToAtomspace(t, parent_node) ==
    /\ parent_node = NoAtom \/ parent_node \in by_uuid
    /\ Len(objs) + 2 * compute_order(t) <= Len(AtomPool) + MaxTreeAtoms
    /\ LET st == to_atomspace(Store, t, parent_node)
       IN  /\ objs' = st.objs
           /\ by_uuid' = st.by_uuid
           /\ by_type' = st.by_type
           /\ by_name' = st.by_name
           /\ lastAtom' = [op |-> "to_atomspace", atom |-> parent_node,
                           ret |-> st.ret]
    /\ UNCHANGED <<inferences, outsideAtom>>

\* two nodes and the link between them, added and removed by the caller
LinkInputs == {1, 2, 5}

NextLinks ==
    \/ \E u \in LinkInputs : Add(u)
    \/ \E u \in LinkInputs : Remove(u)
    \/ \E t \in LabelledTrees, p \in {NoAtom, 1} : ToAtomspace(t, p)

SpecLinks == Init /\ [][NextLinks]_vars

\* C26: links never dangle: every atom in the outgoing set of a stored Link
\* is itself stored (get(uuid) returns it).
C26_LinksNeverDangle ==
    \A u \in by_uuid :
        objs[u].kind = "link" =>
            \A i \in 1..Len(objs[u].outgoing) :
                Get(objs[u].outgoing[i]) = objs[u].outgoing[i]

====
